---------------------------- MODULE Spec2Model ----------------------------
(***************************************************************************)
(* A model of the swim-workout parser (src/fit_parser.py): the frame loop  *)
(* of FITParser.parse, the four record extractors, the unit converter and  *)
(* the summary aggregator FITParser._generate_summary; of the totals       *)
(* ReportGenerator._generate_cumulative_data (src/report_generator.py)     *)
(* computes over the workouts main() (src/main.py) has parsed; of the      *)
(* steps of main(); and of DriveUploader (src/drive_uploader.py).          *)
(*                                                                         *)
(* Representation of Python values                                         *)
(*   str      a sequence of one-character strings: "01:30" is              *)
(*            <<"0","1",":","3","0">>, so that formatting, split(':') and  *)
(*            int() are computed and not assumed.                          *)
(*   None     the token None below, distinct from every str.               *)
(*   float    exact fixed point.  Times are integers in milliseconds,      *)
(*            distances integers in metres, pool lengths integers in       *)
(*            centimetres, raw speeds integers in cm/s; a yard value is    *)
(*            the metre value x 109361 (1e-5 yd for distances, 1e-7 yd for *)
(*            pool lengths).  A speed, and a seconds value handed to       *)
(*            format_time, is a rational <<numerator, denominator>> in     *)
(*            lowest terms.  The inputs drawn below are values on which    *)
(*            double arithmetic gives the same truncated results as exact  *)
(*            arithmetic, and on which no product leaves 32 bits.          *)
(*   dict     a function whose DOMAIN is the set of keys present.          *)
(*   frame    [name |-> kind, fields |-> sequence of [name, value]] with   *)
(*            raw values tagged "num" / "str" / "none".                    *)
(***************************************************************************)
EXTENDS Integers, Sequences, FiniteSets, TLC

VARIABLES
    session_data,   \* parse(): session_data, the dict of the last session frame
    lap_data,       \* parse(): lap_data, list of lap dicts
    length_data,    \* parse(): length_data, list of length dicts
    record_data,    \* parse(): record_data, list of track-point dicts
    data,           \* FITParser.data, {} until parse() has built the model
    frame_locals,   \* the locals of _generate_summary at its return
    pc,             \* "start" before main() has looked at its files, "reading" inside the frame
                    \* loop, "done" after it, "error" when parse() raised, "kept" when main()
                    \* has appended the workout, "uploading" inside the upload loop, "uploaded"
                    \* after the upload step, "reported" at the end, "exit1" after sys.exit(1)
    stream,         \* the frames the reader has yielded so far (kept by RecordFrame only)
    all_swim_data,  \* main(): all_swim_data, the workouts parsed so far
    cumulative_data, \* the dict _generate_cumulative_data returned, {} before the report
    args,           \* main(): args.upload_to_drive and args.no_upload
    fit_files,      \* main(): fit_files, each a file name with what os.path.exists and the
                    \* reader make of it
    drive_links,    \* main(): drive_links
    uploader,       \* DriveUploader: self.service (set or not) and self.credentials
    env,            \* what lies outside the program: token.pickle, credentials.json, the
                    \* folders and files of the Drive, and the kinds of request the Drive has
                    \* received
    outcome         \* the last DriveUploader call: the method, its folder name and parent, whether
                    \* self.service was set when it began, the exception it raised ("" for
                    \* none) and the value it returned

\* the variables of a run of main() and of its uploader
run_vars == <<args, fit_files, drive_links, uploader, env, outcome>>

vars == <<session_data, lap_data, length_data, record_data, data, frame_locals, pc,
          stream, all_swim_data, cumulative_data, run_vars>>

-----------------------------------------------------------------------------
(* Python values *)

None == <<"None">>

NA == <<"N", "/", "A">>

EmptyDict == [k \in {} |-> None]

Get(d, k, default) == IF k \in DOMAIN d THEN d[k] ELSE default

Put(d, k, v) == (k :> v) @@ d

\* truthiness of a str-or-None value
TruthyStr(s) == s # None /\ s # <<>>

\* raw field values of a decoded frame
Num(v) == [t |-> "num", v |-> v]

Str(s) == [t |-> "str", v |-> s]

RawNone == [t |-> "none", v |-> 0]

Field(n, v) == [name |-> n, value |-> v]

\* `if field_value`
Truthy(raw) ==
    CASE raw.t = "num" -> raw.v # 0
      [] raw.t = "str" -> raw.v # <<>>
      [] OTHER -> FALSE

\* `float(field_value) if field_value else 0` and `int(field_value) if field_value else 0`
NumOrZero(raw) == IF Truthy(raw) THEN raw.v ELSE 0

DigitChars == <<"0", "1", "2", "3", "4", "5", "6", "7", "8", "9">>

IsDigit(c) == \E i \in 1..Len(DigitChars) : DigitChars[i] = c

DigitValue(c) == (CHOOSE i \in 1..Len(DigitChars) : DigitChars[i] = c) - 1

\* `float(field_value) if field_value else 0` and `int(field_value) if field_value else ...`
\* raise ValueError: a non-empty str that is no numeral (the strs drawn for numeric fields are
\* letters only; numbers and None never raise)
ConversionRaises(raw) == raw.t = "str" /\ raw.v # <<>> /\ \E i \in 1..Len(raw.v) : ~IsDigit(raw.v[i])

UpperChars == <<"A", "C", "D", "E", "I", "L", "T", "V">>

LowerChars == <<"a", "c", "d", "e", "i", "l", "t", "v">>

\* str.lower(), on the letters the inputs use
LowerChar(c) ==
    IF \E i \in 1..Len(UpperChars) : UpperChars[i] = c
    THEN LowerChars[CHOOSE i \in 1..Len(UpperChars) : UpperChars[i] = c]
    ELSE c

Lower(s) == [i \in 1..Len(s) |-> LowerChar(s[i])]

\* str.upper() of one character, on the same letters
UpperChar(c) ==
    IF \E i \in 1..Len(LowerChars) : LowerChars[i] = c
    THEN UpperChars[CHOOSE i \in 1..Len(LowerChars) : LowerChars[i] = c]
    ELSE c

\* str.capitalize(): the first character upper case, the others lower case
Capitalize(s) == [i \in 1..Len(s) |-> IF i = 1 THEN UpperChar(s[i]) ELSE LowerChar(s[i])]

\* f"{n}" for an integer n >= 0
RECURSIVE Decimal(_)
Decimal(n) == IF n < 10 THEN <<DigitChars[n + 1]>> ELSE Decimal(n \div 10) \o <<DigitChars[(n % 10) + 1]>>

\* f"{n:02d}"
Pad2(n) == IF n < 10 THEN <<"0">> \o Decimal(n) ELSE Decimal(n)

\* s.split(':')
RECURSIVE Split(_)
Split(s) ==
    IF \A i \in 1..Len(s) : s[i] # ":"
    THEN <<s>>
    ELSE LET i == CHOOSE j \in 1..Len(s) : s[j] = ":" /\ \A k \in 1..(j - 1) : s[k] # ":"
         IN  <<SubSeq(s, 1, i - 1)>> \o Split(SubSeq(s, i + 1, Len(s)))

\* int(part) succeeds (for the unsigned decimal strings format_time writes)
IntParses(part) == part # <<>> /\ \A i \in 1..Len(part) : IsDigit(part[i])

RECURSIVE IntOf(_)
IntOf(part) ==
    IF Len(part) = 0 THEN 0
    ELSE 10 * IntOf(SubSeq(part, 1, Len(part) - 1)) + DigitValue(part[Len(part)])

-----------------------------------------------------------------------------
(* Unit converter: src/fit_parser.py 275-300 *)

\* 1.09361 yd per m, as the integer 109361 of 1e-5 yd per m
YdPerM == 109361

RECURSIVE GCD(_, _)
GCD(a, b) == IF b = 0 THEN a ELSE GCD(b, a % b)

\* the rational n / d (n >= 0, d > 0) in lowest terms
Rat(n, d) == LET g == GCD(n, d) IN <<n \div g, d \div g>>

\* format_time with the seconds rounded to the nearest whole second
format_time_rounded(seconds) ==
    LET whole == (2 * seconds[1] + seconds[2]) \div (2 * seconds[2])
        hours == whole \div 3600
        minutes == (whole % 3600) \div 60
        secs == whole % 60
    IN  IF hours > 0
        THEN Decimal(hours) \o <<":">> \o Pad2(minutes) \o <<":">> \o Pad2(secs)
        ELSE Pad2(minutes) \o <<":">> \o Pad2(secs)

\* seconds is a rational <<n, d>>, d > 0.  // and % floor as Python's do, and for every real s
\* int(s // 3600), int((s % 3600) // 60) and int(s % 60) are these three functions of floor(s)
format_time(seconds) ==
    LET whole == seconds[1] \div seconds[2]
        hours == whole \div 3600
        minutes == (whole % 3600) \div 60
        secs == whole % 60
    IN  IF hours > 0
        THEN Decimal(hours) \o <<":">> \o Pad2(minutes) \o <<":">> \o Pad2(secs)
        ELSE Pad2(minutes) \o <<":">> \o Pad2(secs)

\* calculate_pace with a zero clock for the speed 0
calculate_pace_zero_clock(speed_mps) ==
    IF speed_mps[1] = 0 THEN <<"0", "0", ":", "0", "0">>
    ELSE format_time(<<100 * speed_mps[2], speed_mps[1]>>)

\* speed_mps is a rational <<n, d>> in m/s
calculate_pace(speed_mps) ==
    IF speed_mps[1] = 0 THEN None
    ELSE format_time(<<100 * speed_mps[2], speed_mps[1]>>)

calculate_pace_per_100yd(speed_mps) ==
    IF speed_mps[1] = 0 THEN None
    ELSE format_time(<<10000000 * speed_mps[2], speed_mps[1] * YdPerM>>)

\* a time in milliseconds as the rational seconds value format_time takes
Sec(ms) == <<ms, 1000>>

-----------------------------------------------------------------------------
(* Record extractor: src/fit_parser.py 63-273 *)

\* 0.000621371 mi per m, as the integer 621371 of 1e-9 mi per m
MiPerM == 621371

Abs(x) == IF x < 0 THEN -x ELSE x

\* yard_pool_lengths, in dict order: <<pool length in cm, yards>>
yard_pool_lengths == << <<2286, 25>>, <<4572, 50>>, <<2743, 30>> >>

\* the tolerance 0.5 m, in cm
PoolTolerance == 50

\* YardMatch with the comparison `<= 0.5` in place of `< 0.5`
YardMatchInclusive(pool_length_m) ==
    IF \E i \in 1..Len(yard_pool_lengths) : Abs(pool_length_m - yard_pool_lengths[i][1]) <= PoolTolerance
    THEN CHOOSE i \in 1..Len(yard_pool_lengths) :
            /\ Abs(pool_length_m - yard_pool_lengths[i][1]) <= PoolTolerance
            /\ \A j \in 1..(i - 1) : ~(Abs(pool_length_m - yard_pool_lengths[j][1]) <= PoolTolerance)
    ELSE 0

\* the first entry of yard_pool_lengths within the tolerance (the loop's break), 0 when the loop
\* ends without a break
YardMatch(pool_length_m) ==
    IF \E i \in 1..Len(yard_pool_lengths) : Abs(pool_length_m - yard_pool_lengths[i][1]) < PoolTolerance
    THEN CHOOSE i \in 1..Len(yard_pool_lengths) :
            /\ Abs(pool_length_m - yard_pool_lengths[i][1]) < PoolTolerance
            /\ \A j \in 1..(i - 1) : ~(Abs(pool_length_m - yard_pool_lengths[j][1]) < PoolTolerance)
    ELSE 0

\* the branch `elif field_name == 'pool_length'`
pool_length_field(session, raw) ==
    LET pool_length_m == NumOrZero(raw)
        s1 == Put(Put(session, "pool_length_m", pool_length_m), "pool_length_yd", pool_length_m * YdPerM)
        i == YardMatch(pool_length_m)
    IN  IF i # 0
        THEN Put(Put(s1, "pool_length_yd", yard_pool_lengths[i][2] * 10000000), "is_yard_pool", TRUE)
        ELSE IF Abs(pool_length_m - 2500) < PoolTolerance \/ Abs(pool_length_m - 5000) < PoolTolerance
             THEN Put(s1, "is_yard_pool", FALSE)
             ELSE Put(s1, "is_yard_pool", FALSE)

\* one iteration of the field loop of _extract_session_data
session_field(session, name, raw) ==
    CASE name = "timestamp" -> Put(session, "timestamp", raw.v)
      [] name = "total_distance" ->
            LET m == NumOrZero(raw)
            IN  Put(Put(Put(session, "total_distance_m", m), "total_distance_yd", m * YdPerM),
                    "total_distance_mi", m * MiPerM)
      [] name = "total_elapsed_time" ->
            Put(Put(session, "total_elapsed_time_s", NumOrZero(raw)),
                "total_time_formatted", format_time(Sec(NumOrZero(raw))))
      [] name = "total_timer_time" ->
            Put(Put(session, "total_timer_time_s", NumOrZero(raw)),
                "active_time_formatted", format_time(Sec(NumOrZero(raw))))
      [] name = "num_active_lengths" -> Put(session, "num_active_lengths", NumOrZero(raw))
      [] name = "avg_speed" ->
            LET speed == Rat(NumOrZero(raw), 100)
            IN  Put(Put(Put(session, "avg_speed_mps", speed), "avg_pace_per_100m", calculate_pace(speed)),
                    "avg_pace_per_100yd", calculate_pace_per_100yd(speed))
      [] name = "total_strokes" -> Put(session, "total_strokes", NumOrZero(raw))
      [] name = "pool_length" -> pool_length_field(session, raw)
      [] name = "total_calories" -> Put(session, "total_calories", NumOrZero(raw))
      [] name = "avg_heart_rate" -> Put(session, "avg_heart_rate", IF Truthy(raw) THEN raw.v ELSE None)
      [] name = "max_heart_rate" -> Put(session, "max_heart_rate", IF Truthy(raw) THEN raw.v ELSE None)
      [] name = "sport" ->
            Put(session, "sport", IF Truthy(raw) THEN raw.v ELSE <<"s", "w", "i", "m", "m", "i", "n", "g">>)
      [] name = "num_lengths" -> Put(session, "num_lengths", NumOrZero(raw))
      [] name = "num_laps" -> Put(session, "num_laps_session", NumOrZero(raw))
      [] OTHER -> session

RECURSIVE session_fields(_, _)
session_fields(session, fields) ==
    IF fields = <<>> THEN session
    ELSE session_fields(session_field(session, Head(fields).name, Head(fields).value), Tail(fields))

extract_session_data(frame) == session_fields(EmptyDict, frame.fields)

\* one iteration of the field loop of _extract_lap_data
lap_field(lap, name, raw) ==
    CASE name = "timestamp" -> Put(lap, "timestamp", raw.v)
      [] name = "total_elapsed_time" ->
            Put(Put(lap, "elapsed_time_s", NumOrZero(raw)), "time_formatted", format_time(Sec(NumOrZero(raw))))
      [] name = "total_distance" ->
            Put(Put(lap, "distance_m", NumOrZero(raw)), "distance_yd", NumOrZero(raw) * YdPerM)
      [] name = "avg_speed" ->
            LET speed == Rat(NumOrZero(raw), 100)
            IN  Put(Put(Put(lap, "avg_speed_mps", speed), "pace_per_100m", calculate_pace(speed)),
                    "pace_per_100yd", calculate_pace_per_100yd(speed))
      [] name = "total_strokes" -> Put(lap, "strokes", NumOrZero(raw))
      [] name = "stroke_count" -> Put(lap, "stroke_count", NumOrZero(raw))
      [] name = "swim_stroke" -> Put(lap, "stroke_type", IF Truthy(raw) THEN Lower(raw.v) ELSE None)
      [] OTHER -> lap

RECURSIVE lap_fields(_, _)
lap_fields(lap, fields) ==
    IF fields = <<>> THEN lap
    ELSE lap_fields(lap_field(lap, Head(fields).name, Head(fields).value), Tail(fields))

\* lap_pace_fallback taken only when avg_speed left no pace_per_100m key at all
lap_pace_fallback_absent_only(lap) ==
    IF "pace_per_100m" \notin DOMAIN lap
       /\ Get(lap, "distance_m", 0) > 0 /\ Get(lap, "elapsed_time_s", 0) > 0
    THEN LET lap_speed_mps == Rat(1000 * lap["distance_m"], lap["elapsed_time_s"])
         IN  Put(Put(Put(lap, "avg_speed_mps", lap_speed_mps), "pace_per_100m", calculate_pace(lap_speed_mps)),
                 "pace_per_100yd", calculate_pace_per_100yd(lap_speed_mps))
    ELSE lap

\* lines 204-211: pace from distance and time when avg_speed gave none
lap_pace_fallback(lap) ==
    IF ("pace_per_100m" \notin DOMAIN lap \/ ~TruthyStr(Get(lap, "pace_per_100m", None)))
       /\ Get(lap, "distance_m", 0) > 0 /\ Get(lap, "elapsed_time_s", 0) > 0
    THEN LET lap_speed_mps == Rat(1000 * lap["distance_m"], lap["elapsed_time_s"])
         IN  Put(Put(Put(lap, "avg_speed_mps", lap_speed_mps), "pace_per_100m", calculate_pace(lap_speed_mps)),
                 "pace_per_100yd", calculate_pace_per_100yd(lap_speed_mps))
    ELSE lap

\* extract_lap_data returning the dict also when it is empty
extract_lap_data_keep_empty(frame) == <<lap_pace_fallback(lap_fields(EmptyDict, frame.fields))>>

\* Optional[Dict]: <<lap>>, or <<>> for the None an empty dict is turned into
extract_lap_data(frame) ==
    LET lap == lap_pace_fallback(lap_fields(EmptyDict, frame.fields))
    IN  IF DOMAIN lap # {} THEN <<lap>> ELSE <<>>

\* str(field_value).lower() == 'active'; str(None) is 'None'
IsActiveTag(raw) ==
    (IF raw.t = "none" THEN <<"n", "o", "n", "e">> ELSE Lower(raw.v)) = <<"a", "c", "t", "i", "v", "e">>

\* one iteration of the field loop of _extract_length_data
length_field(length, name, raw) ==
    CASE name = "timestamp" -> Put(length, "timestamp", raw.v)
      [] name = "total_elapsed_time" ->
            Put(Put(length, "elapsed_time_s", NumOrZero(raw)), "time_formatted", format_time(Sec(NumOrZero(raw))))
      [] name = "total_timer_time" -> Put(length, "timer_time_s", NumOrZero(raw))
      [] name = "total_distance" ->
            Put(Put(length, "distance_m", NumOrZero(raw)), "distance_yd", NumOrZero(raw) * YdPerM)
      [] name = "swim_stroke" -> Put(length, "stroke_type", IF Truthy(raw) THEN Lower(raw.v) ELSE None)
      [] name = "length_type" ->
            Put(Put(length, "length_type", IF Truthy(raw) THEN Lower(raw.v) ELSE None),
                "is_active", IsActiveTag(raw))
      [] OTHER -> length

RECURSIVE length_fields(_, _)
length_fields(length, fields) ==
    IF fields = <<>> THEN length
    ELSE length_fields(length_field(length, Head(fields).name, Head(fields).value), Tail(fields))

extract_length_data(frame) ==
    LET length == length_fields(EmptyDict, frame.fields)
    IN  IF DOMAIN length # {} THEN <<length>> ELSE <<>>

\* one iteration of the field loop of _extract_record_data
record_field(record, name, raw) ==
    CASE name = "timestamp" -> Put(record, "timestamp", raw.v)
      [] name = "distance" -> Put(record, "distance_m", NumOrZero(raw))
      [] name = "speed" ->
            Put(Put(record, "speed_mps", Rat(NumOrZero(raw), 100)),
                "pace_per_100m", calculate_pace(Rat(NumOrZero(raw), 100)))
      [] name = "heart_rate" -> Put(record, "heart_rate", IF Truthy(raw) THEN raw.v ELSE None)
      [] OTHER -> record

RECURSIVE record_fields(_, _)
record_fields(record, fields) ==
    IF fields = <<>> THEN record
    ELSE record_fields(record_field(record, Head(fields).name, Head(fields).value), Tail(fields))

extract_record_data(frame) ==
    LET record == record_fields(EmptyDict, frame.fields)
    IN  IF DOMAIN record # {} THEN <<record>> ELSE <<>>

\* the fields each extractor hands to float() or int()
converted_fields(kind) ==
    CASE kind = "session" ->
            {"total_distance", "total_elapsed_time", "total_timer_time", "num_active_lengths", "avg_speed",
             "total_strokes", "pool_length", "total_calories", "avg_heart_rate", "max_heart_rate",
             "num_lengths", "num_laps"}
      [] kind = "lap" -> {"total_elapsed_time", "total_distance", "avg_speed", "total_strokes", "stroke_count"}
      [] kind = "length" -> {"total_elapsed_time", "total_timer_time", "total_distance"}
      [] kind = "record" -> {"distance", "speed", "heart_rate"}
      [] OTHER -> {}

\* Raises with every field of every frame converted
RaisesOnAnyField(frame) == \E i \in 1..Len(frame.fields) : ConversionRaises(frame.fields[i].value)

\* the extractor of the frame's kind raises on one of its fields
Raises(frame) ==
    \E i \in 1..Len(frame.fields) :
        /\ frame.fields[i].name \in converted_fields(frame.name)
        /\ ConversionRaises(frame.fields[i].value)

-----------------------------------------------------------------------------
(* Summary aggregator: src/fit_parser.py 302-430 *)

Active == <<"a", "c", "t", "i", "v", "e">>

ZeroClock == <<"0", "0", ":", "0", "0">>

\* sum(length.get('elapsed_time_s', 0) for length in lengths)
RECURSIVE SumElapsed(_)
SumElapsed(lengths) ==
    IF lengths = <<>> THEN 0
    ELSE Get(Head(lengths), "elapsed_time_s", 0) + SumElapsed(Tail(lengths))

RECURSIVE SumSeq(_)
SumSeq(xs) == IF xs = <<>> THEN 0 ELSE Head(xs) + SumSeq(Tail(xs))

\* l.get('is_active', False) or l.get('length_type') == 'active'
IsTagged(l) == Get(l, "is_active", FALSE) \/ Get(l, "length_type", None) = Active

\* FirstN with the slice one entry too long
FirstNOffByOne(lengths, n) == SubSeq(lengths, 1, IF n + 1 < Len(lengths) THEN n + 1 ELSE Len(lengths))

\* lengths[:n] for n > 0
FirstN(lengths, n) == SubSeq(lengths, 1, IF n < Len(lengths) THEN n ELSE Len(lengths))

\* length_active_time with the session's count tried before the tags
length_active_time_count_first(lengths, num_active_lengths) ==
    IF lengths # <<>>
    THEN IF num_active_lengths > 0
         THEN SumElapsed(FirstN(lengths, num_active_lengths))
         ELSE SumElapsed(SelectSeq(lengths, IsTagged))
    ELSE 0

\* lines 315-330: active time from the length records, 0 when they give none
length_active_time(lengths, num_active_lengths) ==
    IF lengths # <<>>
    THEN LET active_lengths == SelectSeq(lengths, IsTagged)
         IN  IF active_lengths # <<>>
             THEN SumElapsed(active_lengths)
             ELSE IF num_active_lengths > 0
                  THEN SumElapsed(FirstN(lengths, num_active_lengths))
                  ELSE 0
    ELSE 0

\* pace_seconds_of with a pace that does not parse counted as 0 seconds
pace_seconds_zero(pace_str) ==
    LET parts == Split(pace_str)
    IN  IF Len(parts) = 2 /\ IntParses(parts[1]) /\ IntParses(parts[2])
        THEN <<IntOf(parts[1]) * 60 + IntOf(parts[2])>>
        ELSE <<0>>

\* the body of the try block: the seconds of one pace string, <<>> when the string has not
\* two parts or int() raises
pace_seconds_of(pace_str) ==
    LET parts == Split(pace_str)
    IN  IF Len(parts) = 2 /\ IntParses(parts[1]) /\ IntParses(parts[2])
        THEN <<IntOf(parts[1]) * 60 + IntOf(parts[2])>>
        ELSE <<>>

\* lines 346-357 and 365-376: the list lap_paces_yd / lap_paces_m
RECURSIVE lap_paces(_, _)
lap_paces(laps, key) ==
    IF laps = <<>> THEN <<>>
    ELSE (IF TruthyStr(Get(Head(laps), key, None)) THEN pace_seconds_of(Head(laps)[key]) ELSE <<>>)
         \o lap_paces(Tail(laps), key)

\* round(n / d, 1) in tenths (no tie is drawn by the inputs)
Round1(n, d) == (20 * n + d) \div (2 * d)

\* reconcile_active_time with the session's timer time preferred whenever it is positive
reconcile_timer_first(from_lengths, session) ==
    IF Get(session, "total_timer_time_s", 0) > 0 THEN session["total_timer_time_s"] ELSE from_lengths

\* lines 333-334: the session's timer time when the lengths gave nothing
reconcile_active_time(from_lengths, session) ==
    IF from_lengths = 0 THEN Get(session, "total_timer_time_s", 0) ELSE from_lengths

\* swim_time_of with the elapsed time always taken
swim_time_total(active_time_s, total_time_s) == total_time_s

\* line 337: swim_time_s
swim_time_of(active_time_s, total_time_s) == IF active_time_s > 0 THEN active_time_s ELSE total_time_s

\* rest_time_of without the test total_time_s > active_time_s
rest_time_unguarded(total_time_s, active_time_s) ==
    IF active_time_s > 0 THEN total_time_s - active_time_s ELSE 0

\* rest_time_of with the absolute difference
rest_time_abs(total_time_s, active_time_s) ==
    IF active_time_s > 0 THEN Abs(total_time_s - active_time_s) ELSE 0

\* line 396: rest_time_s
rest_time_of(total_time_s, active_time_s) ==
    IF active_time_s > 0 /\ total_time_s > active_time_s THEN total_time_s - active_time_s ELSE 0

\* line 411: 'avg_pace': a if is_yard_pool else (b if b else 'N/A')
headline_pace(is_yard_pool, avg_pace_100m, avg_pace_100yd) ==
    IF is_yard_pool THEN avg_pace_100yd
    ELSE IF TruthyStr(avg_pace_100m) THEN avg_pace_100m ELSE NA

\* num_lengths_display with the laps counted before the lengths
num_lengths_display_laps_first(session, laps, lengths) ==
    IF Get(session, "num_active_lengths", 0) = 0
    THEN (IF laps # <<>> THEN Len(laps) ELSE Len(lengths))
    ELSE session["num_active_lengths"]

\* lines 390-393: the lap count shown
num_lengths_display(session, laps, lengths) ==
    IF Get(session, "num_active_lengths", 0) = 0
    THEN (IF lengths # <<>> THEN Len(lengths) ELSE Len(laps))
    ELSE session["num_active_lengths"]

\* stroke_ratios with a zero written where the count or the strokes are not positive
stroke_ratios_zero(summary, laps) ==
    Put(Put(summary, "strokes_per_length",
            IF summary["num_lengths"] > 0 /\ summary["total_strokes"] > 0
            THEN Round1(summary["total_strokes"], summary["num_lengths"]) ELSE 0),
        "avg_strokes_per_lap",
        IF laps # <<>> /\ summary["total_strokes"] > 0 THEN Round1(summary["total_strokes"], Len(laps)) ELSE 0)

\* lines 422-428: strokes_per_length and avg_strokes_per_lap, in tenths
stroke_ratios(summary, laps) ==
    LET summary1 == IF summary["num_lengths"] > 0 /\ summary["total_strokes"] > 0
                    THEN Put(summary, "strokes_per_length",
                             Round1(summary["total_strokes"], summary["num_lengths"]))
                    ELSE summary
    IN  IF laps # <<>> /\ summary["total_strokes"] > 0
        THEN Put(summary1, "avg_strokes_per_lap", Round1(summary["total_strokes"], Len(laps)))
        ELSE summary1

\* the locals of _generate_summary at its return, with the summary it returns
generate_summary(session, laps, lengths, records) ==
    LET is_yard_pool == Get(session, "is_yard_pool", FALSE)
        total_distance_m == Get(session, "total_distance_m", 0)
        total_time_s == Get(session, "total_elapsed_time_s", 0)
        from_lengths == length_active_time(lengths, Get(session, "num_active_lengths", 0))
        active_time_s == reconcile_active_time(from_lengths, session)
        swim_time_s == swim_time_of(active_time_s, total_time_s)
        paces_yd == IF laps # <<>> /\ is_yard_pool THEN lap_paces(laps, "pace_per_100yd") ELSE <<>>
        paces_m == IF laps # <<>> /\ ~is_yard_pool THEN lap_paces(laps, "pace_per_100m") ELSE <<>>
        pace_100yd_1 == IF paces_yd # <<>> THEN format_time(<<SumSeq(paces_yd), Len(paces_yd)>>)
                        ELSE Get(session, "avg_pace_per_100yd", None)
        pace_100m_1 == IF paces_m # <<>> THEN format_time(<<SumSeq(paces_m), Len(paces_m)>>)
                       ELSE Get(session, "avg_pace_per_100m", None)
        derive == ~TruthyStr(pace_100m_1) /\ total_distance_m > 0 /\ swim_time_s > 0
        avg_speed_mps == IF swim_time_s > 0 THEN Rat(1000 * total_distance_m, swim_time_s) ELSE <<0, 1>>
        avg_pace_100m == IF derive THEN calculate_pace(avg_speed_mps) ELSE pace_100m_1
        avg_pace_100yd == IF derive /\ ~TruthyStr(pace_100yd_1)
                          THEN calculate_pace_per_100yd(avg_speed_mps) ELSE pace_100yd_1
        num_active_lengths == num_lengths_display(session, laps, lengths)
        rest_time_s == rest_time_of(total_time_s, active_time_s)
        active_time_formatted == IF active_time_s > 0 THEN format_time(Sec(active_time_s))
                                 ELSE Get(session, "active_time_formatted", ZeroClock)
        total_strokes == Get(session, "total_strokes", 0)
        num_lengths == Get(session, "num_lengths", 0)
        summary0 ==
            [ total_distance_m |-> total_distance_m,
              total_distance_yd |-> Get(session, "total_distance_yd", 0),
              total_time |-> Get(session, "total_time_formatted", ZeroClock),
              active_time |-> active_time_formatted,
              rest_time |-> IF rest_time_s > 0 THEN format_time(Sec(rest_time_s)) ELSE ZeroClock,
              total_strokes |-> total_strokes,
              num_laps |-> num_active_lengths,
              num_laps_actual |-> Len(laps),
              num_records |-> Len(records),
              avg_pace |-> headline_pace(is_yard_pool, avg_pace_100m, avg_pace_100yd),
              avg_pace_100m |-> IF TruthyStr(avg_pace_100m) THEN avg_pace_100m ELSE NA,
              avg_pace_100yd |-> IF TruthyStr(avg_pace_100yd) THEN avg_pace_100yd ELSE NA,
              pool_length_m |-> Get(session, "pool_length_m", 0),
              pool_length_yd |-> Get(session, "pool_length_yd", 0),
              pool_length |-> Get(session, IF is_yard_pool THEN "pool_length_yd" ELSE "pool_length_m", 0),
              is_yard_pool |-> is_yard_pool,
              num_lengths |-> num_lengths,
              num_active_lengths |-> num_active_lengths ]
        summary == stroke_ratios(summary0, laps)
    IN  [ summary |-> summary,
          total_time_s |-> total_time_s,
          active_time_s |-> active_time_s,
          swim_time_s |-> swim_time_s,
          rest_time_s |-> rest_time_s,
          lap_paces |-> IF is_yard_pool THEN paces_yd ELSE paces_m,
          avg_pace_100m |-> avg_pace_100m,
          avg_pace_100yd |-> avg_pace_100yd ]

-----------------------------------------------------------------------------
(* FITParser.parse: src/fit_parser.py 17-61 *)

\* what a DriveUploader call returns: file id, web link and folder id, 0 where there is none
NoResult == [id |-> 0, web_link |-> 0, folder_id |-> 0]

\* no DriveUploader method has been called
NoCall == [op |-> "", folder |-> "", parent |-> 0, had_service |-> FALSE, raised |-> "", result |-> NoResult]

Init ==
    /\ session_data = EmptyDict
    /\ lap_data = <<>>
    /\ length_data = <<>>
    /\ record_data = <<>>
    /\ data = EmptyDict
    /\ frame_locals = EmptyDict
    /\ pc = "reading"
    /\ stream = <<>>
    /\ all_swim_data = <<>>
    /\ cumulative_data = EmptyDict
    /\ args = [upload_to_drive |-> FALSE, no_upload |-> FALSE]
    /\ fit_files = <<>>
    /\ drive_links = <<>>
    /\ uploader = [service |-> FALSE, credentials |-> "none"]
    /\ env = [token_file |-> "absent", credentials_file |-> FALSE, folders |-> <<>>, files |-> <<>>,
              calls |-> {}]
    /\ outcome = NoCall

\* AppendIf with the entity put in front
AppendIfFront(xs, x) == IF x # <<>> THEN <<x[1]>> \o xs ELSE xs

\* `if x: xs.append(x)`, x an Optional[Dict]
AppendIf(xs, x) == IF x # <<>> THEN Append(xs, x[1]) ELSE xs

\* read_session with the fields of the sessions read before kept where the frame has none
read_session_merged(session, frame) == extract_session_data(frame) @@ session

\* line 30: session_data = self._extract_session_data(frame), whatever session_data was
read_session(session, frame) == extract_session_data(frame)

\* one iteration of `for frame in fit`, for a data frame; an exception of a conversion leaves
\* the loop and the function through lines 60-61, with self.data still {}
FrameStep(frame) ==
    /\ pc = "reading"
    /\ IF Raises(frame)
       THEN /\ pc' = "error"
            /\ UNCHANGED <<session_data, lap_data, length_data, record_data>>
       ELSE /\ session_data' = IF frame.name = "session" THEN read_session(session_data, frame) ELSE session_data
            /\ lap_data' = IF frame.name = "lap" THEN AppendIf(lap_data, extract_lap_data(frame))
                           ELSE lap_data
            /\ length_data' = IF frame.name = "length" THEN AppendIf(length_data, extract_length_data(frame))
                              ELSE length_data
            /\ record_data' = IF frame.name = "record" THEN AppendIf(record_data, extract_record_data(frame))
                              ELSE record_data
            /\ pc' = pc
    /\ UNCHANGED <<data, frame_locals, all_swim_data, cumulative_data, run_vars>>

\* FrameStep, the frame not kept
ProcessFrame(frame) == FrameStep(frame) /\ UNCHANGED stream

\* FrameStep, the frame kept in stream
RecordFrame(frame) == FrameStep(frame) /\ stream' = Append(stream, frame)

\* the end of the loop: lines 50-58
BuildData ==
    /\ pc = "reading"
    /\ LET g == generate_summary(session_data, lap_data, length_data, record_data)
       IN  /\ data' = [ session |-> session_data, laps |-> lap_data, lengths |-> length_data,
                        records |-> record_data, summary |-> g.summary ]
           /\ frame_locals' = [k \in DOMAIN g \ {"summary"} |-> g[k]]
    /\ pc' = "done"
    /\ UNCHANGED <<session_data, lap_data, length_data, record_data, stream, all_swim_data, cumulative_data,
                   run_vars>>

-----------------------------------------------------------------------------
(* Cumulative view: src/report_generator.py 100-128, 184-254, 663-683 *)

\* _seconds_to_pace: f"{minutes:02d}:{secs:02d}" of a rational number of seconds
seconds_to_pace(seconds) ==
    LET whole == seconds[1] \div seconds[2]
    IN  Pad2(whole \div 60) \o <<":">> \o Pad2(whole % 60)

\* calculate_pace_from_speed with the seconds rounded up
calculate_pace_from_speed_up(speed_mps) ==
    IF speed_mps[1] = 0 THEN None
    ELSE seconds_to_pace(<<100 * speed_mps[2] + speed_mps[1] - 1, speed_mps[1]>>)

calculate_pace_from_speed(speed_mps) ==
    IF speed_mps[1] = 0 THEN None
    ELSE seconds_to_pace(<<100 * speed_mps[2], speed_mps[1]>>)

calculate_pace_from_speed_yd(speed_mps) ==
    IF speed_mps[1] = 0 THEN None
    ELSE seconds_to_pace(<<10000000 * speed_mps[2], speed_mps[1] * YdPerM>>)

\* SumField with the largest value in place of the sum
RECURSIVE SumFieldMax(_, _, _)
SumFieldMax(workouts, part, key) ==
    IF workouts = <<>> THEN 0
    ELSE LET head == Get(Head(workouts)[part], key, 0)
             rest == SumFieldMax(Tail(workouts), part, key)
         IN  IF head > rest THEN head ELSE rest

\* sum(w.get(part, {}).get(key, 0) for w in self.all_swim_data)
RECURSIVE SumField(_, _, _)
SumField(workouts, part, key) ==
    IF workouts = <<>> THEN 0
    ELSE Get(Head(workouts)[part], key, 0) + SumField(Tail(workouts), part, key)

\* lines 201-210: the loop has no break, so the pace of the last workout that has one stays
RECURSIVE fallback_pace(_, _)
fallback_pace(workouts, key) ==
    IF workouts = <<>> THEN None
    ELSE LET pace == Get(workouts[Len(workouts)]["summary"], key, None)
         IN  IF TruthyStr(pace) /\ pace # NA THEN pace
             ELSE fallback_pace(SubSeq(workouts, 1, Len(workouts) - 1), key)

\* all_laps_of with every lap given the number of the first workout
RECURSIVE all_laps_of_one_number(_, _)
all_laps_of_one_number(workouts, first_number) ==
    IF workouts = <<>> THEN <<>>
    ELSE LET laps == Head(workouts)["laps"]
         IN  [i \in 1..Len(laps) |-> Put(laps[i], "workout_number", first_number)]
             \o all_laps_of_one_number(Tail(workouts), first_number)

\* lines 219-225: every lap, copied and given the number of its workout
RECURSIVE all_laps_of(_, _)
all_laps_of(workouts, first_number) ==
    IF workouts = <<>> THEN <<>>
    ELSE LET laps == Head(workouts)["laps"]
         IN  [i \in 1..Len(laps) |-> Put(laps[i], "workout_number", first_number)]
             \o all_laps_of(Tail(workouts), first_number + 1)

\* the stroke keys of a list of laps: stroke_type.lower() of the laps that have one
stroke_keys(laps) ==
    {Lower(laps[i]["stroke_type"]) : i \in {j \in 1..Len(laps) : TruthyStr(Get(laps[j], "stroke_type", None))}}

\* lines 110-128: the workout's stroke_breakdown, as the count of laps per stroke key (the
\* icon markup and the display names are not modelled)
stroke_breakdown_of(laps) ==
    [k \in stroke_keys(laps) |->
        Cardinality({i \in 1..Len(laps) : TruthyStr(Get(laps[i], "stroke_type", None))
                                          /\ Lower(laps[i]["stroke_type"]) = k})]

\* utils.get_stroke_name
get_stroke_name(stroke_type) ==
    IF ~TruthyStr(stroke_type) THEN <<"U", "n", "k", "n", "o", "w", "n">>
    ELSE Capitalize(Lower(stroke_type))

\* the strokes that have an emoji of their own among the strokes the inputs use
EmojiStrokes == {<<"d", "r", "i", "l", "l">>}

Freestyle == <<"f", "r", "e", "e", "s", "t", "y", "l", "e">>

\* utils.get_stroke_icon_html where no icon file exists: the <span> markup, kept as its two
\* variable parts, the size and the stroke whose emoji is shown (the swimmer of freestyle for
\* a stroke the table does not have, and for no stroke)
get_stroke_icon_html(stroke_type, size) ==
    [ size |-> size,
      emoji |-> IF TruthyStr(stroke_type) /\ Lower(stroke_type) \in EmojiStrokes
                THEN Lower(stroke_type) ELSE Freestyle ]

\* lines 111-115: the three keys every lap is given in place
with_stroke_icons(lap) ==
    LET stroke_type == Get(lap, "stroke_type", None)
    IN  Put(Put(Put(lap, "stroke_icon_html", get_stroke_icon_html(stroke_type, "48px")),
                "stroke_icon_small", get_stroke_icon_html(stroke_type, "24px")),
            "stroke_name", get_stroke_name(stroke_type))

\* generate_multi_workout_report, lines 104-128: each lap is given its icons and its stroke
\* name, each summary its stroke_breakdown
with_stroke_breakdown(workouts) ==
    [i \in 1..Len(workouts) |->
        [workouts[i] EXCEPT
            !["laps"] = [j \in 1..Len(workouts[i]["laps"]) |-> with_stroke_icons(workouts[i]["laps"][j])],
            !["summary"] =
                Put(workouts[i]["summary"], "stroke_breakdown", stroke_breakdown_of(workouts[i]["laps"]))]]

\* lines 227-240: the counts of every stroke key over the workouts
RECURSIVE StrokeCount(_, _)
StrokeCount(workouts, key) ==
    IF workouts = <<>> THEN 0
    ELSE Get(Get(Head(workouts)["summary"], "stroke_breakdown", EmptyDict), key, 0)
         + StrokeCount(Tail(workouts), key)

cumulative_stroke_breakdown(workouts) ==
    [k \in UNION {DOMAIN Get(workouts[i]["summary"], "stroke_breakdown", EmptyDict) : i \in 1..Len(workouts)}
        |-> StrokeCount(workouts, k)]

\* first_is_yard_pool with the flag of the last workout
last_is_yard_pool(workouts) == Get(workouts[Len(workouts)]["summary"], "is_yard_pool", FALSE)

\* line 217: self.all_swim_data[0].get('summary', {}).get('is_yard_pool', False)
first_is_yard_pool(workouts) == Get(workouts[1]["summary"], "is_yard_pool", FALSE)

\* _generate_cumulative_data on the list self.all_swim_data
generate_cumulative_data(workouts) ==
    IF Len(workouts) < 2 THEN EmptyDict
    ELSE LET total_distance_m == SumField(workouts, "summary", "total_distance_m")
             total_distance_yd == SumField(workouts, "summary", "total_distance_yd")
             total_time_s == SumField(workouts, "session", "total_elapsed_time_s")
             total_strokes == SumField(workouts, "summary", "total_strokes")
             total_laps == SumField(workouts, "summary", "num_laps")
             recompute == total_time_s > 0 /\ total_distance_m > 0
             avg_speed_mps == IF recompute THEN Rat(1000 * total_distance_m, total_time_s) ELSE <<0, 1>>
             found_100m == fallback_pace(workouts, "avg_pace_100m")
             found_100yd == fallback_pace(workouts, "avg_pace_100yd")
             pace_per_100m == IF recompute THEN calculate_pace_from_speed(avg_speed_mps)
                              ELSE IF TruthyStr(found_100m) THEN found_100m ELSE NA
             pace_per_100yd == IF recompute THEN calculate_pace_from_speed_yd(avg_speed_mps)
                               ELSE IF TruthyStr(found_100yd) THEN found_100yd ELSE NA
             is_yard_pool == first_is_yard_pool(workouts)
         IN  [ total_distance_m |-> total_distance_m,
               total_distance_yd |-> total_distance_yd,
               total_time |-> IF total_time_s > 0 THEN seconds_to_pace(Sec(total_time_s)) ELSE ZeroClock,
               total_time_s |-> total_time_s,
               total_strokes |-> total_strokes,
               total_laps |-> total_laps,
               num_workouts |-> Len(workouts),
               avg_pace_100m |-> pace_per_100m,
               avg_pace_100yd |-> pace_per_100yd,
               avg_pace |-> IF is_yard_pool THEN pace_per_100yd ELSE pace_per_100m,
               is_yard_pool |-> is_yard_pool,
               all_laps |-> all_laps_of(workouts, 1),
               stroke_breakdown |-> cumulative_stroke_breakdown(workouts) ]

-----------------------------------------------------------------------------
(* DriveUploader: src/drive_uploader.py 20-130 *)

(***************************************************************************)
(* A call works on one record s: the uploader's fields (service,           *)
(* credentials), the world outside (token_file, credentials_file, folders, *)
(* files, calls), the exception raised so far (raised, "" for none), the   *)
(* value returned (result) and budget, the number of steps outside the     *)
(* program (a token refresh, the OAuth flow, building the service, a Drive *)
(* request) that succeed before one fails.  token_file is "absent", or the *)
(* credentials pickled in it: "valid", "expired" (expired, with a refresh  *)
(* token) or "invalid" (not valid and not refreshable).  A folder or file  *)
(* id is its rank in the order of creation; folder_id 0 is None.           *)
(***************************************************************************)

Raise(s, error) == [s EXCEPT !.raised = error]

\* the next step outside the program fails
StepFails(s) == s.budget = 0

StepDone(s) == [s EXCEPT !.budget = @ - 1]

\* a request sent to the Drive through self.service: without a service the attribute access
\* on None raises and nothing is sent; a request that is sent can fail
Request(s, op) ==
    IF ~s.service THEN Raise(s, "AttributeError")
    ELSE LET sent == [s EXCEPT !.calls = @ \cup {[op |-> op, service |-> s.service]}]
         IN  IF StepFails(sent) THEN Raise(sent, "Exception") ELSE StepDone(sent)

\* lines 52-54: self.credentials = creds; self.service = build(...)
build_service(s, creds) ==
    LET kept == [s EXCEPT !.credentials = creds]
    IN  IF StepFails(kept) THEN Raise(kept, "Exception")
        ELSE [StepDone(kept) EXCEPT !.service = TRUE]

\* lines 48-50, then 52-54: the token file is written with the new credentials
save_token(s) == build_service([s EXCEPT !.token_file = "valid"], "valid")

\* lines 24-54
authenticate(s) ==
    LET creds == IF s.token_file = "absent" THEN "none" ELSE s.token_file
    IN  IF creds = "valid" THEN build_service(s, creds)
        ELSE IF creds = "expired"
             THEN (IF StepFails(s) THEN Raise(s, "Exception") ELSE save_token(StepDone(s)))
             ELSE IF ~s.credentials_file THEN Raise(s, "FileNotFoundError")
                  ELSE IF StepFails(s) THEN Raise(s, "Exception")
                       ELSE save_token(StepDone(s))

\* ensure_service without the call of authenticate
ensure_service_never(s) == s

\* `if not self.service: self.authenticate()`, the first lines of every other method
ensure_service(s) == IF ~s.service THEN authenticate(s) ELSE s

\* the id the Drive gives to what is created next
NextId(s) == Len(s.folders) + Len(s.files) + 1

\* lines 56-74
create_folder(s0, folder_name, parent_folder_id) ==
    LET s == ensure_service(s0)
    IN  IF s.raised # "" THEN s
        ELSE LET sent == Request(s, "create")
             IN  IF sent.raised # "" THEN sent
                 ELSE [sent EXCEPT
                          !.folders = Append(@, [id |-> NextId(sent), name |-> folder_name,
                                                 parents |-> IF parent_folder_id # 0
                                                             THEN {parent_folder_id} ELSE {},
                                                 trashed |-> FALSE]),
                          !.result = [NoResult EXCEPT !.folder_id = NextId(sent)]]

\* find_or_create_folder that creates the folder without a search
always_create_folder(s0, folder_name, parent_folder_id) == create_folder(s0, folder_name, parent_folder_id)

\* lines 76-92; the Drive answers the query with the folders that match, in the order of
\* their creation
find_or_create_folder(s0, folder_name, parent_folder_id) ==
    LET s == ensure_service(s0)
    IN  IF s.raised # "" THEN s
        ELSE LET sent == Request(s, "list")
                 folders == SelectSeq(sent.folders,
                                LAMBDA f : /\ f.name = folder_name
                                           /\ ~f.trashed
                                           /\ parent_folder_id # 0 => parent_folder_id \in f.parents)
             IN  IF sent.raised # "" THEN sent
                 ELSE IF folders # <<>>
                      THEN [sent EXCEPT !.result = [NoResult EXCEPT !.folder_id = folders[1].id]]
                      ELSE create_folder(sent, folder_name, parent_folder_id)

\* lines 94-117; file_path is a file of fit_files, the link of a file is named by its id
upload_file(s0, file_path, folder_id) ==
    LET s == ensure_service(s0)
    IN  IF s.raised # "" THEN s
        ELSE IF file_path.state = "missing" THEN Raise(s, "FileNotFoundError")
        ELSE LET sent == Request(s, "create")
             IN  IF sent.raised # "" THEN sent
                 ELSE [sent EXCEPT
                          !.files = Append(@, [id |-> NextId(sent), name |-> file_path.name,
                                               parents |-> IF folder_id # 0 THEN {folder_id} ELSE {}]),
                          !.result = [id |-> NextId(sent), web_link |-> NextId(sent), folder_id |-> 0]]

\* lines 119-130
upload_fit_file(s0, fit_file_path, folder_name) ==
    LET s == ensure_service(s0)
        found == find_or_create_folder(s, folder_name, 0)
        folder_id == found.result.folder_id
        sent == upload_file(found, fit_file_path, folder_id)
    IN  IF s.raised # "" THEN s
        ELSE IF found.raised # "" THEN found
        ELSE IF sent.raised # "" THEN sent
        ELSE [sent EXCEPT !.result = [sent.result EXCEPT !.folder_id = folder_id]]

\* the record a call starts on: the uploader and the world as they are, nothing raised
Enter(budget) ==
    [ service |-> uploader.service, credentials |-> uploader.credentials,
      token_file |-> env.token_file, credentials_file |-> env.credentials_file,
      folders |-> env.folders, files |-> env.files, calls |-> env.calls,
      budget |-> budget, raised |-> "", result |-> NoResult ]

\* the uploader, the world and the outcome the call op(..., folder, parent, ...) leaves
Leave(s, op, folder, parent) ==
    /\ uploader' = [service |-> s.service, credentials |-> s.credentials]
    /\ env' = [token_file |-> s.token_file, credentials_file |-> s.credentials_file,
               folders |-> s.folders, files |-> s.files, calls |-> s.calls]
    /\ outcome' = [op |-> op, folder |-> folder, parent |-> parent, had_service |-> uploader.service,
                   raised |-> s.raised, result |-> IF s.raised = "" THEN s.result ELSE NoResult]

\* the variables a DriveUploader call leaves alone
parser_vars ==
    <<session_data, lap_data, length_data, record_data, data, frame_locals, pc, stream, all_swim_data,
      cumulative_data>>

\* the methods, called from outside
Authenticate(budget) ==
    /\ Leave(authenticate(Enter(budget)), "authenticate", "", 0)
    /\ UNCHANGED <<parser_vars, args, fit_files, drive_links>>

CreateFolder(folder_name, parent_folder_id, budget) ==
    /\ Leave(create_folder(Enter(budget), folder_name, parent_folder_id),
             "create_folder", folder_name, parent_folder_id)
    /\ UNCHANGED <<parser_vars, args, fit_files, drive_links>>

FindOrCreateFolder(folder_name, parent_folder_id, budget) ==
    /\ Leave(find_or_create_folder(Enter(budget), folder_name, parent_folder_id),
             "find_or_create_folder", folder_name, parent_folder_id)
    /\ UNCHANGED <<parser_vars, args, fit_files, drive_links>>

UploadFile(file_path, folder_id, budget) ==
    /\ Leave(upload_file(Enter(budget), file_path, folder_id), "upload_file", "", folder_id)
    /\ UNCHANGED <<parser_vars, args, fit_files, drive_links>>

UploadFitFile(fit_file_path, folder_name, budget) ==
    /\ Leave(upload_fit_file(Enter(budget), fit_file_path, folder_name), "upload_fit_file", folder_name, 0)
    /\ UNCHANGED <<parser_vars, args, fit_files, drive_links>>

-----------------------------------------------------------------------------
(* main: src/main.py 54-125 *)

\* lines 80-81: the parsed workout is appended
KeepWorkout ==
    /\ pc = "done"
    /\ all_swim_data' = Append(all_swim_data, data)
    /\ pc' = "kept"
    /\ UNCHANGED <<session_data, lap_data, length_data, record_data, data, frame_locals, stream,
                   cumulative_data, run_vars>>

\* lines 76-79: the next file gets a new FITParser, whose parse() starts with empty locals
NextFile ==
    /\ pc = "kept"
    /\ session_data' = EmptyDict
    /\ lap_data' = <<>>
    /\ length_data' = <<>>
    /\ record_data' = <<>>
    /\ data' = EmptyDict
    /\ frame_locals' = EmptyDict
    /\ stream' = <<>>
    /\ pc' = "reading"
    /\ UNCHANGED <<all_swim_data, cumulative_data, run_vars>>

\* line 100: args.upload_to_drive and not args.no_upload
upload_requested == args.upload_to_drive /\ ~args.no_upload

\* the variables of the parser and of the report
work_vars ==
    <<session_data, lap_data, length_data, record_data, data, frame_locals, stream, all_swim_data,
      cumulative_data>>

\* lines 61-69: no file given, or a file that does not exist, ends the run before any parsing
ValidateFiles ==
    /\ pc = "start"
    /\ pc' = IF fit_files = <<>> \/ \E i \in 1..Len(fit_files) : fit_files[i].state = "missing"
             THEN "exit1" ELSE "reading"
    /\ UNCHANGED <<work_vars, run_vars>>

\* fit_parser.py lines 20, 26 and 60-61: the reader raises on a file that is no FIT file, and
\* parse() raises in its turn
ReaderRaises ==
    /\ pc = "reading"
    /\ Len(all_swim_data) < Len(fit_files)
    /\ fit_files[Len(all_swim_data) + 1].state = "corrupt"
    /\ pc' = "error"
    /\ UNCHANGED <<work_vars, run_vars>>

\* ParseFailed with the file that failed kept as an empty workout
ParseFailedKept ==
    /\ pc = "error"
    /\ all_swim_data' = Append(all_swim_data, data)
    /\ pc' = "kept"
    /\ UNCHANGED <<session_data, lap_data, length_data, record_data, data, frame_locals, stream,
                   cumulative_data, run_vars>>

\* lines 94-96: except Exception: sys.exit(1)
ParseFailed ==
    /\ pc = "error"
    /\ pc' = "exit1"
    /\ UNCHANGED <<work_vars, run_vars>>

\* args.drive_folder, at its default 'Swim FIT Files'
drive_folder == "Swim FIT Files"

\* lines 100-104 and the handlers of lines 112-117: DriveUploader().authenticate()
StartUpload(budget) ==
    /\ pc = "kept"
    /\ Len(all_swim_data) = Len(fit_files)
    /\ upload_requested
    /\ LET s == authenticate([Enter(budget) EXCEPT !.service = FALSE, !.credentials = "none"])
       IN  /\ Leave(s, "authenticate", "", 0)
           /\ pc' = IF s.raised = "" THEN "uploading" ELSE "uploaded"
    /\ UNCHANGED <<work_vars, args, fit_files, drive_links>>

\* UploadNext with the links forgotten when an upload fails
UploadNextForgetful(budget) ==
    /\ pc = "uploading"
    /\ Len(drive_links) < Len(fit_files)
    /\ LET s == upload_fit_file(Enter(budget), fit_files[Len(drive_links) + 1], drive_folder)
       IN  /\ Leave(s, "upload_fit_file", drive_folder, 0)
           /\ IF s.raised = ""
              THEN drive_links' = Append(drive_links, s.result.web_link) /\ pc' = pc
              ELSE drive_links' = <<>> /\ pc' = "uploaded"
    /\ UNCHANGED <<work_vars, args, fit_files>>

\* lines 105-110, one iteration, and the handlers of lines 112-117
UploadNext(budget) ==
    /\ pc = "uploading"
    /\ Len(drive_links) < Len(fit_files)
    /\ LET s == upload_fit_file(Enter(budget), fit_files[Len(drive_links) + 1], drive_folder)
       IN  /\ Leave(s, "upload_fit_file", drive_folder, 0)
           /\ IF s.raised = ""
              THEN drive_links' = Append(drive_links, s.result.web_link) /\ pc' = pc
              ELSE UNCHANGED drive_links /\ pc' = "uploaded"
    /\ UNCHANGED <<work_vars, args, fit_files>>

\* line 105: the loop over fit_files is over
UploadDone ==
    /\ pc = "uploading"
    /\ Len(drive_links) = Len(fit_files)
    /\ pc' = "uploaded"
    /\ UNCHANGED <<work_vars, run_vars>>

\* lines 123-125: ReportGenerator(all_swim_data).generate_multi_workout_report, after the
\* upload step, or right after the parse loop when no upload is asked for (lines 118-119)
GenerateReport ==
    /\ pc = "uploaded" \/ (pc = "kept" /\ ~upload_requested)
    /\ all_swim_data' = with_stroke_breakdown(all_swim_data)
    /\ cumulative_data' = generate_cumulative_data(with_stroke_breakdown(all_swim_data))
    /\ pc' = "reported"
    /\ UNCHANGED <<session_data, lap_data, length_data, record_data, data, frame_locals, stream, run_vars>>

-----------------------------------------------------------------------------
(* Inputs: the decoded frames the loop is run on *)

MaxPoolCm == 5100

MaxLengths == 3

MaxLaps == 2

Frame(kind, fields) == [name |-> kind, fields |-> fields]

\* the field absent, or present with one of the raw values
Opt(name, raws) == {<<>>} \cup {<<Field(name, r)>> : r \in raws}

\* the list the frame is appended to has room
Room(frame) ==
    /\ frame.name = "lap" => Len(lap_data) < MaxLaps
    /\ frame.name = "length" => Len(length_data) < MaxLengths

\* pool lengths in cm: every centimetre from 22 m to 28 m and from 45 m to MaxPoolCm, and 0
PoolLengthsCm == {0} \cup (2200..2800) \cup (4500..MaxPoolCm)

\* sessions that carry a pool length, or a pool_length field without a value
PoolFrames ==
    {Frame("session", <<Field("pool_length", r)>>) : r \in {Num(cm) : cm \in PoolLengthsCm} \cup {RawNone}}

NextPool == (\E f \in PoolFrames : ProcessFrame(f)) \/ BuildData

SpecPool == Init /\ [][NextPool]_vars

\* sessions for the active-time chain: elapsed 61 s or 100.75 s, timer 75 s, num_active_lengths
ActiveSessionFrames ==
    {Frame("session", a \o b \o c) :
        a \in Opt("total_elapsed_time", {Num(61000), Num(100750)}),
        b \in Opt("total_timer_time", {Num(75000)}),
        c \in Opt("num_active_lengths", {RawNone, Num(1), Num(2), Num(5)})}

\* lengths of 30.5 s and 45 s, tagged active, idle or not at all; a length with no elapsed
\* time and one whose elapsed time has no value
ActiveLengthFrames ==
    { Frame("length", <<Field("total_elapsed_time", Num(30500))>>),
      Frame("length", <<Field("total_elapsed_time", Num(45000))>>),
      Frame("length", <<Field("total_elapsed_time", Num(30500)), Field("length_type", Str(Active))>>),
      Frame("length", <<Field("total_elapsed_time", Num(45000)),
                        Field("length_type", Str(<<"A", "C", "T", "I", "V", "E">>))>>),
      Frame("length", <<Field("total_elapsed_time", Num(45000)),
                        Field("length_type", Str(<<"i", "d", "l", "e">>))>>),
      Frame("length", <<Field("total_elapsed_time", RawNone)>>),
      Frame("length", <<Field("length_type", Str(Active))>>) }

NextActive ==
    \/ \E f \in ActiveSessionFrames : ProcessFrame(f)
    \/ \E f \in ActiveLengthFrames : Room(f) /\ ProcessFrame(f)
    \/ BuildData

SpecActive == Init /\ [][NextActive]_vars

\* sessions for the pace rules: 1000 m, 1200 s elapsed, 600 s timer, avg_speed 0 or 1 m/s,
\* a 25 yd or a 25 m pool
PaceSessionFrames ==
    {Frame("session", a \o b \o c \o d \o e) :
        a \in Opt("total_distance", {Num(1000)}),
        b \in Opt("total_elapsed_time", {Num(1200000)}),
        c \in Opt("total_timer_time", {Num(600000)}),
        d \in Opt("avg_speed", {Num(0), Num(100)}),
        e \in Opt("pool_length", {Num(2286), Num(2500)})}

\* laps at 1.11 m/s ("01:30"), 1 m/s ("01:40"), 0.02 m/s ("1:23:20"), a lap of 100 m in
\* 120 s without avg_speed, a lap with avg_speed 0 and a lap with a stroke count only
PaceLapFrames ==
    { Frame("lap", <<Field("avg_speed", Num(111))>>),
      Frame("lap", <<Field("avg_speed", Num(100))>>),
      Frame("lap", <<Field("avg_speed", Num(2))>>),
      Frame("lap", <<Field("total_elapsed_time", Num(120000)), Field("total_distance", Num(100))>>),
      Frame("lap", <<Field("avg_speed", Num(0))>>),
      Frame("lap", <<Field("total_strokes", Num(18))>>) }

NextPace ==
    \/ \E f \in PaceSessionFrames : ProcessFrame(f)
    \/ \E f \in PaceLapFrames : Room(f) /\ ProcessFrame(f)
    \/ BuildData

SpecPace == Init /\ [][NextPace]_vars

\* the frames a stream is made of: sessions with and without stroke and length counts, laps,
\* lengths and track points, each kind also with a field no extractor knows and with nothing
\* but such a field, and a frame of a kind the loop does not know
MaxStream == 4

Bogus == Field("developer_field", Str(<<"a", "b", "c">>))

StreamFrames ==
    { Frame("session", <<Field("total_strokes", Num(40)), Field("num_lengths", Num(4)),
                         Field("num_active_lengths", Num(0))>>),
      Frame("session", <<Field("num_active_lengths", Num(3)), Bogus, Field("total_strokes", Num(40))>>),
      Frame("session", <<Field("num_lengths", Num(4)), Field("total_strokes", RawNone)>>),
      Frame("session", <<Bogus>>),
      Frame("lap", <<Field("total_strokes", Num(18))>>),
      Frame("lap", <<Bogus, Field("stroke_count", Num(9))>>),
      Frame("lap", <<Bogus>>),
      Frame("length", <<Field("total_elapsed_time", Num(30500))>>),
      Frame("length", <<Bogus>>),
      Frame("record", <<Field("heart_rate", Num(120)), Bogus>>),
      Frame("record", <<>>),
      Frame("event", <<Field("total_distance", Str(<<"a", "b", "c">>))>>) }

NextStream ==
    \/ \E f \in StreamFrames : Len(stream) < MaxStream /\ RecordFrame(f)
    \/ BuildData

SpecStream == Init /\ [][NextStream]_vars

\* the number of frames of one stream of SpecSpeed
MaxSpeedFrames == 2

\* sessions with no avg_speed, an avg_speed without a value, of 0, 1 cm/s, 1 m/s and 1.25 m/s
SpeedSessionFrames ==
    {Frame("session", a) :
        a \in Opt("avg_speed", {RawNone, Num(0), Num(1), Num(100), Num(125)})}

\* laps with every combination of an avg_speed (none, no value, 0, 1.11 m/s), a distance
\* (none, 0, 100 m) and an elapsed time (none, 0, 120 s)
SpeedLapFrames ==
    {Frame("lap", a \o b \o c) :
        a \in Opt("avg_speed", {RawNone, Num(0), Num(111)}),
        b \in Opt("total_distance", {Num(0), Num(100)}),
        c \in Opt("total_elapsed_time", {Num(0), Num(120000)})}

\* track points with a distance and a speed (none, no value, 0, 1.5 m/s)
SpeedRecordFrames ==
    {Frame("record", <<Field("distance", Num(25))>> \o a) :
        a \in Opt("speed", {RawNone, Num(0), Num(150)})}

NextSpeed ==
    \/ \E f \in SpeedSessionFrames \cup SpeedLapFrames \cup SpeedRecordFrames :
            Len(stream) < MaxSpeedFrames /\ RecordFrame(f)
    \/ BuildData

SpecSpeed == Init /\ [][NextSpeed]_vars

\* two laps, two lengths and two track points told apart by their timestamps, a session and a
\* frame of an unknown kind
OrderFrames ==
    { Frame("session", <<Field("total_strokes", Num(40))>>),
      Frame("lap", <<Field("timestamp", Str(<<"1">>))>>),
      Frame("lap", <<Field("timestamp", Str(<<"2">>))>>),
      Frame("length", <<Field("timestamp", Str(<<"1">>))>>),
      Frame("length", <<Field("timestamp", Str(<<"2">>))>>),
      Frame("record", <<Field("timestamp", Str(<<"1">>))>>),
      Frame("record", <<Field("timestamp", Str(<<"2">>))>>),
      Frame("event", <<Field("timestamp", Str(<<"3">>))>>) }

NextOrder ==
    \/ \E f \in OrderFrames : Len(stream) < MaxStream /\ RecordFrame(f)
    \/ BuildData

SpecOrder == Init /\ [][NextOrder]_vars

NotANumber == Str(<<"a", "b", "c">>)

\* frames of every kind with a numeric field that is well formed or without a value, and
\* frames whose second field is a str that is no number
BadFieldFrames ==
    {Frame("session", <<Field("total_distance", r), Field("total_strokes", Num(40))>>) :
        r \in {Num(1000), RawNone}}
    \cup {Frame("lap", <<Field("total_elapsed_time", r), Field("total_distance", Num(100))>>) :
        r \in {Num(120000), RawNone}}
    \cup {Frame("record", <<Field("heart_rate", r), Field("distance", Num(25))>>) :
        r \in {Num(120), RawNone}}
    \cup { Frame("length", <<Field("total_timer_time", Num(30500))>>),
           Frame("session", <<Field("total_strokes", Num(40)), Field("total_distance", NotANumber)>>),
           Frame("lap", <<Field("total_distance", Num(100)), Field("total_elapsed_time", NotANumber)>>),
           Frame("record", <<Field("distance", Num(25)), Field("heart_rate", NotANumber)>>) }

NextBadField ==
    \/ \E f \in BadFieldFrames : Len(stream) < MaxStream /\ RecordFrame(f)
    \/ BuildData

SpecBadField == Init /\ [][NextBadField]_vars

\* the last whole second of the range drawn around one hour
MaxClockS == 3670

\* elapsed times in ms: every second up to 70 s and from 3530 s to MaxClockS, 10 h and 100 h
\* and the second before each, each with 0, 1, 500 and 999 ms more
ClockMs ==
    {1000 * sec + ms : sec \in (0..70) \cup (3530..MaxClockS) \cup {35999, 36000, 359999, 360000},
                       ms \in {0, 1, 500, 999}}

ClockFrames == {Frame("session", <<Field("total_elapsed_time", Num(ms))>>) : ms \in ClockMs}

NextClock == (\E f \in ClockFrames : ProcessFrame(f)) \/ BuildData

SpecClock == Init /\ [][NextClock]_vars

\* the number of files of one run
MaxWorkouts == 2

\* sessions of 500 m or 1000 m, 600 s or 625 s, 40 strokes and 20 active lengths, each
\* field also absent
CombinedFrames ==
    {Frame("session", a \o b \o c \o d) :
        a \in Opt("total_distance", {Num(500), Num(1000)}),
        b \in Opt("total_elapsed_time", {Num(600000), Num(625000)}),
        c \in Opt("total_strokes", {Num(40)}),
        d \in Opt("num_active_lengths", {Num(20)})}

NextCombined ==
    \/ \E f \in CombinedFrames : ProcessFrame(f)
    \/ BuildData
    \/ KeepWorkout
    \/ Len(all_swim_data) < MaxWorkouts /\ NextFile
    \/ GenerateReport

SpecCombined == Init /\ [][NextCombined]_vars

\* sessions of 1000 m, 625 s, an avg_speed of 1 m/s or 1.25 m/s and a 25 yd or 25 m pool, each
\* field also absent: workouts with and without a distance, a time and a pace of their own
BlendFrames ==
    {Frame("session", a \o b \o c \o d) :
        a \in Opt("total_distance", {Num(1000)}),
        b \in Opt("total_elapsed_time", {Num(625000)}),
        c \in Opt("avg_speed", {Num(100), Num(125)}),
        d \in Opt("pool_length", {Num(2286), Num(2500)})}

NextBlend ==
    \/ \E f \in BlendFrames : ProcessFrame(f)
    \/ BuildData
    \/ KeepWorkout
    \/ Len(all_swim_data) < MaxWorkouts /\ NextFile
    \/ GenerateReport

SpecBlend == Init /\ [][NextBlend]_vars

\* the number of laps and lengths of one file of SpecLaps
MaxEntries == 2

Drill == <<"D", "r", "i", "l", "l">>

\* two laps told apart by their timestamps, the second with a stroke, and a length
LapsFrames ==
    { Frame("lap", <<Field("timestamp", Str(<<"1">>))>>),
      Frame("lap", <<Field("timestamp", Str(<<"2">>)), Field("swim_stroke", Str(Drill))>>),
      Frame("length", <<Field("timestamp", Str(<<"3">>))>>) }

NextLaps ==
    \/ \E f \in LapsFrames : Len(lap_data) + Len(length_data) < MaxEntries /\ ProcessFrame(f)
    \/ BuildData
    \/ KeepWorkout
    \/ Len(all_swim_data) < MaxWorkouts /\ NextFile
    \/ GenerateReport

SpecLaps == Init /\ [][NextLaps]_vars

\* the number of folders and files on the Drive at which no further method is called
MaxItems == 4

\* the most steps outside the program a method takes: upload_fit_file takes five (the OAuth
\* flow or a refresh, build, list, create, create), find_or_create_folder one less,
\* create_folder and upload_file two less, authenticate three less
MaxSteps == 5

TokenFiles == {"absent", "valid", "expired", "invalid"}

Folder(id, name, parents, trashed) == [id |-> id, name |-> name, parents |-> parents, trashed |-> trashed]

\* the Drive before the run: empty; a folder 'Archive' with a 'Swim FIT Files' folder in it;
\* two folders of that name; a trashed one and one that is not
Drives ==
    { <<>>,
      <<Folder(1, "Archive", {}, FALSE), Folder(2, drive_folder, {1}, FALSE)>>,
      <<Folder(1, drive_folder, {}, FALSE), Folder(2, drive_folder, {}, FALSE)>>,
      <<Folder(1, drive_folder, {}, TRUE), Folder(2, drive_folder, {}, FALSE)>> }

\* a run starts with no service, any token file, credentials.json there or not, and any of
\* the Drives
InitUploader ==
    /\ session_data = EmptyDict
    /\ lap_data = <<>>
    /\ length_data = <<>>
    /\ record_data = <<>>
    /\ data = EmptyDict
    /\ frame_locals = EmptyDict
    /\ pc = "reading"
    /\ stream = <<>>
    /\ all_swim_data = <<>>
    /\ cumulative_data = EmptyDict
    /\ args = [upload_to_drive |-> FALSE, no_upload |-> FALSE]
    /\ fit_files = <<>>
    /\ drive_links = <<>>
    /\ uploader = [service |-> FALSE, credentials |-> "none"]
    /\ \E token_file \in TokenFiles, credentials_file \in BOOLEAN, folders \in Drives :
            env = [token_file |-> token_file, credentials_file |-> credentials_file, folders |-> folders,
                   files |-> <<>>, calls |-> {}]
    /\ outcome = NoCall

\* a FIT file that exists and a path where no file is
FitPaths == {[name |-> "a.fit", state |-> "ok"], [name |-> "b.fit", state |-> "missing"]}

\* any file the methods are handed directly
OtherPaths == {[name |-> "notes.txt", state |-> "ok"], [name |-> "gone.txt", state |-> "missing"]}

\* another method is called
CanCall == Len(env.folders) + Len(env.files) < MaxItems

\* the budgets that make a difference to a method of at most `most` steps outside the program
Budgets(most) == 0..most

NextUploader ==
    \/ \E budget \in Budgets(MaxSteps - 3) : CanCall /\ Authenticate(budget)
    \/ \E folder_name \in {drive_folder, "Archive"}, parent_folder_id \in {0, 1},
          budget \in Budgets(MaxSteps - 2) :
            CanCall /\ CreateFolder(folder_name, parent_folder_id, budget)
    \/ \E folder_name \in {drive_folder, "Archive"}, parent_folder_id \in {0, 1},
          budget \in Budgets(MaxSteps - 1) :
            CanCall /\ FindOrCreateFolder(folder_name, parent_folder_id, budget)
    \/ \E file_path \in OtherPaths, folder_id \in {0, 1}, budget \in Budgets(MaxSteps - 2) :
            CanCall /\ UploadFile(file_path, folder_id, budget)
    \/ \E fit_file_path \in FitPaths, budget \in Budgets(MaxSteps) :
            CanCall /\ UploadFitFile(fit_file_path, drive_folder, budget)

SpecUploader == InitUploader /\ [][NextUploader]_vars

\* the names of the files of a run, in the order of the command line
FileNames == <<"a.fit", "b.fit", "c.fit", "d.fit">>

\* the runs of main: up to MaxWorkouts files, each one there and a FIT file ("ok"), there and
\* not decodable to its end ("corrupt"), or not there ("missing")
Runs ==
    UNION {[1..n -> {"ok", "corrupt", "missing"}] : n \in 0..MaxWorkouts}

\* main starts with the flags of the command line, the files named on it, no uploader, and
\* the token file, credentials.json and the Drive as they are found
InitMain ==
    /\ session_data = EmptyDict
    /\ lap_data = <<>>
    /\ length_data = <<>>
    /\ record_data = <<>>
    /\ data = EmptyDict
    /\ frame_locals = EmptyDict
    /\ pc = "start"
    /\ stream = <<>>
    /\ all_swim_data = <<>>
    /\ cumulative_data = EmptyDict
    /\ \E upload_to_drive \in BOOLEAN, no_upload \in BOOLEAN :
            args = [upload_to_drive |-> upload_to_drive, no_upload |-> no_upload]
    /\ \E run \in Runs :
            fit_files = [i \in DOMAIN run |-> [name |-> FileNames[i], state |-> run[i]]]
    /\ drive_links = <<>>
    /\ uploader = [service |-> FALSE, credentials |-> "none"]
    /\ \E token_file \in TokenFiles, credentials_file \in BOOLEAN, folders \in Drives :
            env = [token_file |-> token_file, credentials_file |-> credentials_file, folders |-> folders,
                   files |-> <<>>, calls |-> {}]
    /\ outcome = NoCall

\* a session of 1000 m and a session whose distance is no number
MainFrames ==
    { Frame("session", <<Field("total_distance", Num(1000))>>),
      Frame("session", <<Field("total_strokes", Num(40)), Field("total_distance", NotANumber)>>) }

\* the file the parse loop is at
CurrentFile == fit_files[Len(all_swim_data) + 1]

NextMain ==
    \/ ValidateFiles
    \/ \E f \in MainFrames : ProcessFrame(f)
    \/ ReaderRaises
    \/ pc = "reading" /\ CurrentFile.state = "ok" /\ BuildData
    \/ KeepWorkout
    \/ Len(all_swim_data) < Len(fit_files) /\ NextFile
    \/ ParseFailed
    \/ \E budget \in Budgets(MaxSteps - 3) : StartUpload(budget)
    \/ \E budget \in Budgets(MaxSteps) : UploadNext(budget)
    \/ UploadDone
    \/ Len(all_swim_data) = Len(fit_files) /\ GenerateReport

SpecMain == InitMain /\ [][NextMain]_vars

\* a run goes on as long as it has a step to take
SpecMainFair == SpecMain /\ WF_vars(NextMain)

-----------------------------------------------------------------------------
(* Properties *)

Done == pc = "done"

\* the yards a pool length in cm snaps to, 0 when it is no yard pool
SnapYards(cm) ==
    IF cm > 2236 /\ cm < 2336 THEN 25
    ELSE IF cm > 4522 /\ cm < 4622 THEN 50
    ELSE IF cm > 2693 /\ cm < 2793 THEN 30
    ELSE 0

\* C1: every pool length is classified, as a yard pool exactly when it is less than 0.5 m from
\* 22.86, 45.72 or 27.43 m; then pool_length_yd is 25, 50 or 30, otherwise pool_length_yd is
\* the metres times 1.09361; the summary carries the same flag.
C1_PoolClassification ==
    "pool_length_m" \in DOMAIN session_data =>
        LET cm == session_data["pool_length_m"]
        IN  /\ {"is_yard_pool", "pool_length_yd"} \subseteq DOMAIN session_data
            /\ session_data["is_yard_pool"] = (SnapYards(cm) # 0)
            /\ session_data["pool_length_yd"] =
                    IF SnapYards(cm) # 0 THEN SnapYards(cm) * 10000000 ELSE cm * 109361
            /\ Done => data["summary"]["is_yard_pool"] = (SnapYards(cm) # 0)

C1_Witness ==
    /\ Done
    /\ Get(session_data, "pool_length_m", 0) = 2792
    /\ data["summary"]["is_yard_pool"]
    /\ data["summary"]["pool_length"] = 300000000

\* the indices of the lengths tagged active
TaggedLengths ==
    {i \in 1..Len(length_data) :
        \/ "is_active" \in DOMAIN length_data[i] /\ length_data[i]["is_active"]
        \/ "length_type" \in DOMAIN length_data[i] /\ length_data[i]["length_type"] = Active}

\* the elapsed time of the lengths at the indices S, a missing elapsed time counting 0
RECURSIVE ElapsedOver(_)
ElapsedOver(S) ==
    IF S = {} THEN 0
    ELSE LET i == CHOOSE x \in S : TRUE
         IN  (IF "elapsed_time_s" \in DOMAIN length_data[i] THEN length_data[i]["elapsed_time_s"] ELSE 0)
             + ElapsedOver(S \ {i})

SessionCount == IF "num_active_lengths" \in DOMAIN session_data THEN session_data["num_active_lengths"] ELSE 0

SessionTimer == IF "total_timer_time_s" \in DOMAIN session_data THEN session_data["total_timer_time_s"] ELSE 0

SessionElapsed ==
    IF "total_elapsed_time_s" \in DOMAIN session_data THEN session_data["total_elapsed_time_s"] ELSE 0

\* the indices of the first SessionCount lengths
FirstLengths == {i \in 1..Len(length_data) : i <= SessionCount}

\* C2: when some length is tagged active and the tagged lengths' elapsed times sum to a positive
\* value, the active time is that sum, whatever num_active_lengths and total_timer_time are.
C2_ActiveFromTagged ==
    (Done /\ TaggedLengths # {} /\ ElapsedOver(TaggedLengths) > 0) =>
        /\ frame_locals["active_time_s"] = ElapsedOver(TaggedLengths)
        /\ data["summary"]["active_time"] = format_time(Sec(ElapsedOver(TaggedLengths)))

C2_Witness ==
    /\ Done
    /\ Len(length_data) = 3
    /\ TaggedLengths = {1, 3}
    /\ ElapsedOver({2}) > 0
    /\ SessionCount = 1
    /\ SessionTimer > 0
    /\ frame_locals["active_time_s"] = 75500

\* C3 as stated: with lengths, none tagged, and num_active_lengths = n > 0, the active time is
\* the sum of the elapsed times of the first n lengths.
C3_FirstNAlways ==
    (Done /\ length_data # <<>> /\ TaggedLengths = {} /\ SessionCount > 0) =>
        frame_locals["active_time_s"] = ElapsedOver(FirstLengths)

\* C3 amended: with lengths, none tagged, and num_active_lengths = n > 0, the active time is the
\* sum of the elapsed times of the first n lengths (all of them when n exceeds their number)
\* when that sum is positive, and the session's total_timer_time_s when the sum is zero.
C3_FirstNWhenPositive ==
    (Done /\ length_data # <<>> /\ TaggedLengths = {} /\ SessionCount > 0) =>
        frame_locals["active_time_s"] =
            IF ElapsedOver(FirstLengths) > 0 THEN ElapsedOver(FirstLengths) ELSE SessionTimer

C3_Witness ==
    /\ Done
    /\ Len(length_data) = 3
    /\ TaggedLengths = {}
    /\ SessionCount = 2
    /\ ElapsedOver({3}) > 0
    /\ SessionTimer > 0
    /\ frame_locals["active_time_s"] = ElapsedOver({1, 2})
    /\ frame_locals["active_time_s"] # SessionTimer

\* what the length records give: the tagged lengths, else the first num_active_lengths ones
LengthBased ==
    IF TaggedLengths # {} THEN ElapsedOver(TaggedLengths)
    ELSE IF SessionCount > 0 THEN ElapsedOver(FirstLengths)
    ELSE 0

\* C4: the first positive value wins: a positive length-based sum is the active time, otherwise
\* the session's total_timer_time_s is; the swim time is the active time when that is positive
\* and the session's total_elapsed_time_s otherwise.
C4_FallbackChain ==
    Done =>
        /\ frame_locals["active_time_s"] = (IF LengthBased > 0 THEN LengthBased ELSE SessionTimer)
        /\ frame_locals["swim_time_s"] =
                IF frame_locals["active_time_s"] > 0 THEN frame_locals["active_time_s"] ELSE SessionElapsed

C4_Witness ==
    /\ Done
    /\ TaggedLengths # {}
    /\ LengthBased = 0
    /\ SessionElapsed > 0
    /\ frame_locals["active_time_s"] = 75000
    /\ frame_locals["swim_time_s"] = 75000

Max0(x) == IF x > 0 THEN x ELSE 0

C6_RestNeverNegative ==
    Done =>
        /\ frame_locals["rest_time_s"] >= 0
        /\ frame_locals["active_time_s"] >= SessionElapsed =>
                data["summary"]["rest_time"] = <<"0", "0", ":", "0", "0">>

C6_Witness ==
    /\ Done
    /\ SessionElapsed > 0
    /\ frame_locals["active_time_s"] > SessionElapsed
    /\ data["summary"]["rest_time"] = <<"0", "0", ":", "0", "0">>

YardPool == IF "is_yard_pool" \in DOMAIN session_data THEN session_data["is_yard_pool"] ELSE FALSE

SessionDistance == IF "total_distance_m" \in DOMAIN session_data THEN session_data["total_distance_m"] ELSE 0

\* the lap key of the pool's classified unit
UnitKey == IF YardPool THEN "pace_per_100yd" ELSE "pace_per_100m"

Digits == {"0", "1", "2", "3", "4", "5", "6", "7", "8", "9"}

\* a pace string of the form MM:SS
IsMinSec(str) == Len(str) = 5 /\ str[3] = ":" /\ \A i \in {1, 2, 4, 5} : str[i] \in Digits

MinSecSeconds(str) ==
    60 * (10 * DigitValue(str[1]) + DigitValue(str[2])) + 10 * DigitValue(str[4]) + DigitValue(str[5])

\* the indices of the laps whose pace string for the classified unit is present and parses
UsableLaps ==
    {i \in 1..Len(lap_data) :
        /\ UnitKey \in DOMAIN lap_data[i]
        /\ lap_data[i][UnitKey] # None
        /\ IsMinSec(lap_data[i][UnitKey])}

RECURSIVE PaceSecondsOver(_)
PaceSecondsOver(S) ==
    IF S = {} THEN 0
    ELSE LET i == CHOOSE x \in S : TRUE
         IN  MinSecSeconds(lap_data[i][UnitKey]) + PaceSecondsOver(S \ {i})

\* the summary's pace of the classified unit
UnitPace == IF YardPool THEN data["summary"]["avg_pace_100yd"] ELSE data["summary"]["avg_pace_100m"]

\* C7: when some lap has a pace string of the classified unit that is present and parses, the
\* average pace of that unit is the clock of the mean of those laps' seconds; the other laps
\* count neither in the sum nor in the number, and no session pace replaces the lap average.
C7_LapAverage ==
    (Done /\ UsableLaps # {}) =>
        /\ UnitPace = format_time(<<PaceSecondsOver(UsableLaps), Cardinality(UsableLaps)>>)
        /\ data["summary"]["avg_pace"] = UnitPace

C7_Witness ==
    /\ Done
    /\ ~YardPool
    /\ Len(lap_data) = 2
    /\ Get(lap_data[1], "pace_per_100m", None) = <<"0", "1", ":", "3", "0">>
    /\ Get(lap_data[2], "pace_per_100m", None) = <<"0", "1", ":", "4", "0">>
    /\ Get(session_data, "avg_pace_per_100m", None) = <<"0", "1", ":", "4", "0">>
    /\ data["summary"]["avg_pace_100m"] = <<"0", "1", ":", "3", "5">>

\* the swim time of the active-time chain
SwimTime == IF frame_locals["active_time_s"] > 0 THEN frame_locals["active_time_s"] ELSE SessionElapsed

\* seconds per 100 m at SessionDistance metres in SwimTime milliseconds
DerivedPace == Rat(SwimTime, 10 * SessionDistance)

DerivedPaceYd == <<100000 * DerivedPace[1], 109361 * DerivedPace[2]>>

\* C8 as stated: when no lap gives a pace and total distance and swim time are positive, both
\* pace variants are the pace of the speed total_distance_m / swim_time_s.
C8_DerivedPace ==
    (Done /\ UsableLaps = {} /\ SessionDistance > 0 /\ SwimTime > 0) =>
        /\ data["summary"]["avg_pace_100m"] = format_time(DerivedPace)
        /\ data["summary"]["avg_pace_100yd"] = format_time(DerivedPaceYd)

\* C8 amended: when no lap gives a pace, the session carries no pace of a positive avg_speed,
\* and total distance and swim time are positive, both pace variants are the pace of the speed
\* total_distance_m / swim_time_s.
C8_DerivedPaceNoSessionPace ==
    (Done /\ UsableLaps = {} /\ SessionDistance > 0 /\ SwimTime > 0
          /\ ~TruthyStr(Get(session_data, "avg_pace_per_100m", None))) =>
        /\ data["summary"]["avg_pace_100m"] = format_time(DerivedPace)
        /\ data["summary"]["avg_pace_100yd"] = format_time(DerivedPaceYd)

C8_Witness ==
    /\ Done
    /\ lap_data = <<>>
    /\ SessionDistance = 1000
    /\ SessionElapsed = 1200000
    /\ frame_locals["active_time_s"] = 0
    /\ data["summary"]["avg_pace_100m"] = <<"0", "2", ":", "0", "0">>
    /\ data["summary"]["avg_pace_100yd"] = <<"0", "1", ":", "4", "9">>

\* C9: the headline avg_pace is the retained variant of the classified unit, "N/A" when no pace
\* was derived, and never None.
C9_HeadlinePace ==
    Done =>
        /\ data["summary"]["avg_pace"] # None
        /\ data["summary"]["avg_pace"] = UnitPace

\* C10: when total distance and swim time are both positive, neither avg_pace_100m nor
\* avg_pace_100yd is "N/A".
C10_BothVariants ==
    (Done /\ SessionDistance > 0 /\ SwimTime > 0) =>
        /\ data["summary"]["avg_pace_100m"] # NA
        /\ data["summary"]["avg_pace_100yd"] # NA

\* the frames of one kind read so far, in reading order
OfKind(kind) == SelectSeq(stream, LAMBDA f : f.name = kind)

\* the session's value of a count field, 0 when the last session frame read has no such field
\* or gives it no value
LastSessionCount(name) ==
    LET sessions == OfKind("session")
    IN  IF sessions = <<>> THEN 0
        ELSE LET fields == sessions[Len(sessions)].fields
             IN  IF \E i \in 1..Len(fields) : fields[i].name = name /\ fields[i].value.t = "num"
                 THEN fields[CHOOSE i \in 1..Len(fields) : fields[i].name = name].value.v
                 ELSE 0

\* C11: num_laps is the session's num_active_lengths when that is nonzero, otherwise the number
\* of length entries when there are any, otherwise the number of lap entries; num_laps_actual
\* is the number of lap entries.
C11_LapCount ==
    Done =>
        /\ data["summary"]["num_laps"] =
                IF LastSessionCount("num_active_lengths") # 0 THEN LastSessionCount("num_active_lengths")
                ELSE IF Len(data["lengths"]) > 0 THEN Len(data["lengths"])
                ELSE Len(data["laps"])
        /\ data["summary"]["num_laps_actual"] = Len(data["laps"])

C11_Witness ==
    /\ Done
    /\ LastSessionCount("num_active_lengths") = 0
    /\ Len(data["laps"]) = 2
    /\ Len(data["lengths"]) = 1
    /\ data["summary"]["num_laps"] = 1
    /\ data["summary"]["num_laps_actual"] = 2

\* v tenths is n / d rounded to one decimal
NearestTenth(v, n, d) == 2 * Abs(10 * n - v * d) <= d

\* C12: strokes_per_length is in the summary exactly when the session's num_lengths and
\* total_strokes are both positive, avg_strokes_per_lap exactly when there is a lap and
\* total_strokes is positive; a key that is present holds the ratio to one decimal.
C12_StrokeRatios ==
    Done =>
        LET summary == data["summary"]
            strokes == LastSessionCount("total_strokes")
            lengths == LastSessionCount("num_lengths")
        IN  /\ "strokes_per_length" \in DOMAIN summary <=> (lengths > 0 /\ strokes > 0)
            /\ "avg_strokes_per_lap" \in DOMAIN summary <=> (Len(data["laps"]) > 0 /\ strokes > 0)
            /\ "strokes_per_length" \in DOMAIN summary =>
                    NearestTenth(summary["strokes_per_length"], strokes, lengths)
            /\ "avg_strokes_per_lap" \in DOMAIN summary =>
                    NearestTenth(summary["avg_strokes_per_lap"], strokes, Len(data["laps"]))

C12_Witness ==
    /\ Done
    /\ LastSessionCount("total_strokes") = 40
    /\ LastSessionCount("num_lengths") = 0
    /\ Len(data["laps"]) = 3
    /\ "strokes_per_length" \notin DOMAIN data["summary"]
    /\ Get(data["summary"], "avg_strokes_per_lap", 0) = 133

\* the field names each extractor tests for
KnownFields(kind) ==
    CASE kind = "session" ->
            {"timestamp", "total_distance", "total_elapsed_time", "total_timer_time", "num_active_lengths",
             "avg_speed", "total_strokes", "pool_length", "total_calories", "avg_heart_rate",
             "max_heart_rate", "sport", "num_lengths", "num_laps"}
      [] kind = "lap" ->
            {"timestamp", "total_elapsed_time", "total_distance", "avg_speed", "total_strokes",
             "stroke_count", "swim_stroke"}
      [] kind = "length" ->
            {"timestamp", "total_elapsed_time", "total_timer_time", "total_distance", "swim_stroke",
             "length_type"}
      [] kind = "record" -> {"timestamp", "distance", "speed", "heart_rate"}
      [] OTHER -> {}

HasField(frame, name) == \E i \in 1..Len(frame.fields) : frame.fields[i].name = name

\* the frames of one kind read so far that carry a field their extractor knows
Producing(kind) ==
    SelectSeq(stream, LAMBDA f : f.name = kind /\ \E n \in KnownFields(kind) : HasField(f, n))

\* the number a frame gives a field, 0 when the field is absent or has no value
FieldNumber(frame, name) ==
    IF \E i \in 1..Len(frame.fields) : frame.fields[i].name = name /\ frame.fields[i].value.t = "num"
    THEN frame.fields[CHOOSE i \in 1..Len(frame.fields) : frame.fields[i].name = name].value.v
    ELSE 0

\* the seconds a clock string MM:SS or H:MM:SS stands for
ClockSeconds(str) ==
    LET parts == Split(str)
    IN  IF Len(parts) = 3
        THEN 3600 * IntOf(parts[1]) + 60 * IntOf(parts[2]) + IntOf(parts[3])
        ELSE 60 * IntOf(parts[1]) + IntOf(parts[2])

\* pace is the clock of the whole seconds of num / den seconds, num >= 0 and den > 0
IsPaceOf(pace, num, den) ==
    /\ pace # None
    /\ ClockSeconds(pace) * den <= num
    /\ num < (ClockSeconds(pace) + 1) * den

\* the 100 m and 100 yd paces of the entity are those of the speed n / d m/s (in lowest
\* terms): 100 d / n seconds and 100 d / (1.09361 n) seconds
HasPacesOf(entity, speed) ==
    /\ {"pace_per_100m", "pace_per_100yd"} \subseteq DOMAIN entity
    /\ IsPaceOf(entity["pace_per_100m"], 100 * speed[2], speed[1])
    /\ IsPaceOf(entity["pace_per_100yd"], 10000000 * speed[2], 109361 * speed[1])

\* C13: a lap with a positive distance and a positive elapsed time has both paces: those of
\* its avg_speed field when that is positive, and otherwise (field absent, without a value or
\* zero) those of the speed distance / elapsed time, which is then its avg_speed_mps.
C13_LapPaceFallback ==
    /\ Len(lap_data) = Len(Producing("lap"))
    /\ \A i \in 1..Len(lap_data) :
            LET frame == Producing("lap")[i]
                lap == lap_data[i]
                speed == FieldNumber(frame, "avg_speed")
                metres == FieldNumber(frame, "total_distance")
                millis == FieldNumber(frame, "total_elapsed_time")
            IN  (metres > 0 /\ millis > 0) =>
                    IF speed > 0
                    THEN lap["avg_speed_mps"] = Rat(speed, 100) /\ HasPacesOf(lap, Rat(speed, 100))
                    ELSE lap["avg_speed_mps"] = Rat(1000 * metres, millis)
                         /\ HasPacesOf(lap, Rat(1000 * metres, millis))

C13_Witness ==
    /\ Len(lap_data) = 2
    /\ HasField(stream[1], "avg_speed") /\ FieldNumber(stream[1], "avg_speed") = 0
    /\ FieldNumber(stream[1], "total_distance") = 100
    /\ FieldNumber(stream[1], "total_elapsed_time") = 120000
    /\ Get(lap_data[1], "pace_per_100m", None) = <<"0", "2", ":", "0", "0">>
    /\ Get(lap_data[1], "pace_per_100yd", None) = <<"0", "1", ":", "4", "9">>
    /\ FieldNumber(stream[2], "avg_speed") = 111
    /\ FieldNumber(stream[2], "total_elapsed_time") = 120000
    /\ Get(lap_data[2], "pace_per_100m", None) = <<"0", "1", ":", "3", "0">>

\* the pace under pace_key is the absent marker when the speed under speed_key is zero, and
\* the clock of seconds_num / seconds_den times the speed's inverse when it is positive; no
\* speed, no pace
PaceFollowsSpeed(entity, speed_key, pace_key, seconds_num, seconds_den) ==
    IF speed_key \in DOMAIN entity
    THEN /\ pace_key \in DOMAIN entity
         /\ IF entity[speed_key][1] = 0
            THEN entity[pace_key] = None
            ELSE IsPaceOf(entity[pace_key], seconds_num * entity[speed_key][2],
                          seconds_den * entity[speed_key][1])
    ELSE pace_key \notin DOMAIN entity

\* the speed a frame's field gives: the field's number, 0 when it has no value
FieldSpeed(frame, name) == Rat(FieldNumber(frame, name), 100)

\* C18: a speed field that is zero or has no value gives the absent marker as pace, a positive
\* one the clock of 100 / speed seconds per 100 m and of 100 / (1.09361 speed) seconds per
\* 100 yd, for the session, every lap and every track point (which has the 100 m pace only);
\* a lap's speed is distance / time where the fallback synthesized it; without a speed there is
\* no pace; and no frame makes the extraction fail.
C18_PaceFromSpeed ==
    /\ pc # "error"
    /\ PaceFollowsSpeed(session_data, "avg_speed_mps", "avg_pace_per_100m", 100, 1)
    /\ PaceFollowsSpeed(session_data, "avg_speed_mps", "avg_pace_per_100yd", 10000000, 109361)
    /\ OfKind("session") # <<>> =>
            LET frame == OfKind("session")[Len(OfKind("session"))]
            IN  IF HasField(frame, "avg_speed")
                THEN session_data["avg_speed_mps"] = FieldSpeed(frame, "avg_speed")
                ELSE "avg_speed_mps" \notin DOMAIN session_data
    /\ \A i \in 1..Len(lap_data) :
            /\ PaceFollowsSpeed(lap_data[i], "avg_speed_mps", "pace_per_100m", 100, 1)
            /\ PaceFollowsSpeed(lap_data[i], "avg_speed_mps", "pace_per_100yd", 10000000, 109361)
    /\ Len(record_data) = Len(Producing("record"))
    /\ \A i \in 1..Len(record_data) :
            /\ PaceFollowsSpeed(record_data[i], "speed_mps", "pace_per_100m", 100, 1)
            /\ "pace_per_100yd" \notin DOMAIN record_data[i]
            /\ IF HasField(Producing("record")[i], "speed")
               THEN record_data[i]["speed_mps"] = FieldSpeed(Producing("record")[i], "speed")
               ELSE "speed_mps" \notin DOMAIN record_data[i]

C18_Witness ==
    /\ Done
    /\ Len(stream) = 2
    /\ stream[1].name = "session" /\ HasField(stream[1], "avg_speed")
    /\ FieldNumber(stream[1], "avg_speed") = 0
    /\ stream[2].name = "record" /\ FieldNumber(stream[2], "speed") = 150
    /\ session_data["avg_pace_per_100m"] = None
    /\ session_data["avg_pace_per_100yd"] = None
    /\ data["summary"]["avg_pace_100yd"] = NA
    /\ Get(record_data[1], "pace_per_100m", None) = <<"0", "1", ":", "0", "6">>

\* a frame none of whose fields its extractor knows
Unrecognized(frame) == \A n \in KnownFields(frame.name) : ~HasField(frame, n)

\* C14: no collection holds an empty entity: a lap, length or record frame adds one entity when
\* it carries a recognized field and none otherwise; a session frame without a recognized field
\* gives the empty session, which the data model then holds under 'session'.
C14_NoEmptyEntity ==
    /\ \A i \in 1..Len(lap_data) : DOMAIN lap_data[i] # {}
    /\ \A i \in 1..Len(length_data) : DOMAIN length_data[i] # {}
    /\ \A i \in 1..Len(record_data) : DOMAIN record_data[i] # {}
    /\ Len(lap_data) = Len(Producing("lap"))
    /\ Len(length_data) = Len(Producing("length"))
    /\ Len(record_data) = Len(Producing("record"))
    /\ (OfKind("session") # <<>> /\ Unrecognized(OfKind("session")[Len(OfKind("session"))])) =>
            session_data = EmptyDict
    /\ Done =>
            /\ DOMAIN data = {"session", "laps", "lengths", "records", "summary"}
            /\ data["session"] = session_data
            /\ data["laps"] = lap_data /\ data["lengths"] = length_data /\ data["records"] = record_data

C14_Witness ==
    /\ Done
    /\ Len(stream) = 4
    /\ stream[1].name = "session" /\ ~Unrecognized(stream[1])
    /\ stream[2].name = "lap" /\ Unrecognized(stream[2])
    /\ stream[3].name = "lap" /\ ~Unrecognized(stream[3])
    /\ stream[4].name = "session" /\ Unrecognized(stream[4])
    /\ Len(data["laps"]) = 1
    /\ data["session"] = EmptyDict

KnownKinds == {"session", "lap", "length", "record"}

\* the frame without the fields its extractor does not know
Strip(frame) == Frame(frame.name, SelectSeq(frame.fields, LAMBDA fl : fl.name \in KnownFields(frame.name)))

\* the stream without the frames of unknown kinds and without the unknown fields
Stripped(s) ==
    LET kept == SelectSeq(s, LAMBDA f : f.name \in KnownKinds)
    IN  [i \in 1..Len(kept) |-> Strip(kept[i])]

\* what the extractor of a kind makes of a frame
EntityOf(kind, frame) ==
    CASE kind = "lap" -> extract_lap_data(frame)
      [] kind = "length" -> extract_length_data(frame)
      [] kind = "record" -> extract_record_data(frame)

\* the entities of the frames of one kind in a stream, in the order of the stream
RECURSIVE EntitiesOf(_, _)
EntitiesOf(kind, s) ==
    IF s = <<>> THEN <<>>
    ELSE (IF Head(s).name = kind THEN EntityOf(kind, Head(s)) ELSE <<>>) \o EntitiesOf(kind, Tail(s))

\* the session of a stream: that of its last session frame
SessionOf(s) ==
    LET sessions == SelectSeq(s, LAMBDA f : f.name = "session")
    IN  IF sessions = <<>> THEN EmptyDict ELSE extract_session_data(sessions[Len(sessions)])

\* C15: the session, laps, lengths and records read from a stream, and the summary built from
\* them, are those of the stream without its frames of unknown kinds and without its fields of
\* unknown names, and no such frame or field makes the extraction fail.
C15_UnknownIgnored ==
    LET plain == Stripped(stream)
    IN  /\ pc # "error"
        /\ session_data = SessionOf(plain)
        /\ lap_data = EntitiesOf("lap", plain)
        /\ length_data = EntitiesOf("length", plain)
        /\ record_data = EntitiesOf("record", plain)
        /\ Done =>
                /\ data["session"] = SessionOf(plain)
                /\ data["laps"] = EntitiesOf("lap", plain)
                /\ data["lengths"] = EntitiesOf("length", plain)
                /\ data["records"] = EntitiesOf("record", plain)
                /\ data["summary"] =
                        generate_summary(SessionOf(plain), EntitiesOf("lap", plain),
                                         EntitiesOf("length", plain), EntitiesOf("record", plain)).summary

C15_Witness ==
    /\ Done
    /\ Len(stream) = 4
    /\ stream[1].name = "session" /\ HasField(stream[1], "developer_field") /\ ~Unrecognized(stream[1])
    /\ stream[2].name = "event"
    /\ stream[3].name = "lap" /\ HasField(stream[3], "developer_field") /\ ~Unrecognized(stream[3])
    /\ stream[4].name = "record" /\ HasField(stream[4], "developer_field")
    /\ Len(Stripped(stream)) = 3
    /\ DOMAIN data["session"] = {"num_active_lengths", "total_strokes"}
    /\ Len(data["laps"]) = 1 /\ DOMAIN data["laps"][1] = {"stroke_count"}
    /\ Len(data["records"]) = 1 /\ DOMAIN data["records"][1] = {"heart_rate"}
    /\ data["summary"]["num_laps"] = 3

\* the collection holds, entry by entry, the entities of the frames of the kind that carry a
\* recognized field, in the order in which they were read
InReadingOrder(collection, kind) ==
    /\ Len(collection) = Len(Producing(kind))
    /\ \A i \in 1..Len(collection) : <<collection[i]>> = EntityOf(kind, Producing(kind)[i])

\* C17: laps, lengths and records each hold the entities of their frames in reading order,
\* however the kinds are interleaved, while the frames are read and in the data model built.
C17_RecordingOrder ==
    /\ InReadingOrder(lap_data, "lap")
    /\ InReadingOrder(length_data, "length")
    /\ InReadingOrder(record_data, "record")
    /\ Done =>
            /\ InReadingOrder(data["laps"], "lap")
            /\ InReadingOrder(data["lengths"], "length")
            /\ InReadingOrder(data["records"], "record")

C17_Witness ==
    /\ Done
    /\ Len(stream) = 4
    /\ stream[1].name = "lap" /\ stream[2].name = "length"
    /\ stream[3].name = "lap" /\ stream[4].name = "length"
    /\ stream[1] # stream[3] /\ stream[2] # stream[4]
    /\ Len(data["laps"]) = 2 /\ Len(data["lengths"]) = 2
    /\ data["laps"][1]["timestamp"] = stream[1].fields[1].value.v
    /\ data["laps"][2]["timestamp"] = stream[3].fields[1].value.v
    /\ data["lengths"][1]["timestamp"] = stream[2].fields[1].value.v
    /\ data["lengths"][2]["timestamp"] = stream[4].fields[1].value.v

\* C16: extraction never aborts on a single bad field: whatever raw value a recognized field
\* carries, parse() does not raise, and the frames read so far stay extracted.
C16_BadFieldTolerated ==
    /\ pc # "error"
    /\ Len(lap_data) = Len(Producing("lap"))
    /\ Len(length_data) = Len(Producing("length"))
    /\ Len(record_data) = Len(Producing("record"))

\* a part of a clock string written with exactly two digits
TwoDigits(part) == Len(part) = 2 /\ part[1] \in Digits /\ part[2] \in Digits

\* a part written as a decimal number without a leading zero
PlainNumber(part) == Len(part) >= 1 /\ part[1] \in Digits \ {"0"} /\ \A i \in 1..Len(part) : part[i] \in Digits

\* C19: the clock of a time is H:MM:SS exactly when the time is at least 3600 s and MM:SS
\* otherwise, minutes and seconds written with two digits and below 60, and it stands for the
\* whole seconds of the time: fractions are cut off, never rounded up.
C19_ClockFormat ==
    "total_elapsed_time_s" \in DOMAIN session_data =>
        LET ms == session_data["total_elapsed_time_s"]
            parts == Split(session_data["total_time_formatted"])
        IN  /\ Len(parts) = (IF ms >= 3600000 THEN 3 ELSE 2)
            /\ TwoDigits(parts[Len(parts)]) /\ IntOf(parts[Len(parts)]) < 60
            /\ TwoDigits(parts[Len(parts) - 1]) /\ IntOf(parts[Len(parts) - 1]) < 60
            /\ Len(parts) = 3 => PlainNumber(parts[1])
            /\ 1000 * ClockSeconds(session_data["total_time_formatted"]) <= ms
            /\ ms < 1000 * (ClockSeconds(session_data["total_time_formatted"]) + 1)
            /\ Done => data["summary"]["total_time"] = session_data["total_time_formatted"]

C19_Witness ==
    /\ Done
    /\ Get(session_data, "total_elapsed_time_s", 0) = 3600999
    /\ data["summary"]["total_time"] = <<"1", ":", "0", "0", ":", "0", "0">>

Reported == pc = "reported"

\* the sum over the workouts at the indices S of the value under key in the part of the
\* workout, a missing value counting 0
RECURSIVE TotalOver(_, _, _)
TotalOver(S, part, key) ==
    IF S = {} THEN 0
    ELSE LET i == CHOOSE x \in S : TRUE
         IN  (IF key \in DOMAIN all_swim_data[i][part] THEN all_swim_data[i][part][key] ELSE 0)
             + TotalOver(S \ {i}, part, key)

\* the orders in which n workouts can be given
Orders(n) == {p \in [1..n -> 1..n] : \A i, j \in 1..n : p[i] = p[j] => i = j}

\* the totals of a cumulative dict
Totals(c) ==
    <<c["total_distance_m"], c["total_distance_yd"], c["total_time_s"], c["total_time"],
      c["total_strokes"], c["total_laps"]>>

\* C20: for two or more workouts the cumulative distance (m and yd), time, strokes and lap
\* count are the sums of the workouts' total_distance_m, total_distance_yd,
\* total_elapsed_time_s, total_strokes and num_laps, and the same in whatever order the
\* workouts are given.
C20_CumulativeSums ==
    (Reported /\ Len(all_swim_data) >= 2) =>
        LET all == 1..Len(all_swim_data)
        IN  /\ cumulative_data["total_distance_m"] = TotalOver(all, "summary", "total_distance_m")
            /\ cumulative_data["total_distance_yd"] = TotalOver(all, "summary", "total_distance_yd")
            /\ cumulative_data["total_time_s"] = TotalOver(all, "session", "total_elapsed_time_s")
            /\ cumulative_data["total_strokes"] = TotalOver(all, "summary", "total_strokes")
            /\ cumulative_data["total_laps"] = TotalOver(all, "summary", "num_laps")
            /\ cumulative_data["num_workouts"] = Len(all_swim_data)
            /\ \A p \in Orders(Len(all_swim_data)) :
                    Totals(generate_cumulative_data([i \in all |-> all_swim_data[p[i]]]))
                        = Totals(cumulative_data)

C20_Witness ==
    /\ Reported
    /\ Len(all_swim_data) = 2
    /\ all_swim_data[1]["summary"]["total_distance_m"] = 1000
    /\ all_swim_data[2]["summary"]["total_distance_m"] = 500
    /\ all_swim_data[1]["summary"]["num_laps"] = 20
    /\ all_swim_data[2]["summary"]["total_strokes"] = 40
    /\ cumulative_data["total_distance_m"] = 1500
    /\ cumulative_data["total_distance_yd"] = 1500 * 109361
    /\ cumulative_data["total_time_s"] = 1225000
    /\ cumulative_data["total_time"] = <<"2", "0", ":", "2", "5">>
    /\ cumulative_data["total_laps"] = 20
    /\ cumulative_data["total_strokes"] = 40

\* the combined distance (m) and the combined elapsed time (ms) of the workouts
CombinedDistance == TotalOver(1..Len(all_swim_data), "summary", "total_distance_m")

CombinedTime == TotalOver(1..Len(all_swim_data), "session", "total_elapsed_time_s")

\* the workouts with the paces of their summaries struck out
WithoutPaces(workouts) ==
    [i \in 1..Len(workouts) |->
        [workouts[i] EXCEPT !["summary"] = Put(Put(@, "avg_pace_100m", NA), "avg_pace_100yd", NA)]]

\* a clock string written MM:SS
IsMinutesSeconds(str) ==
    LET parts == Split(str)
    IN  Len(parts) = 2 /\ IntParses(parts[1]) /\ Len(parts[1]) >= 2 /\ TwoDigits(parts[2]) /\ IntOf(parts[2]) < 60

\* C21: when the combined distance and the combined time of two or more workouts are both
\* positive, the cumulative 100 m and 100 yd paces are the MM:SS clocks of the whole seconds
\* of 100 / speed and 100 / (1.09361 speed) for speed = combined distance / combined time,
\* and they do not depend on the pace strings of the workouts.
C21_BlendedPace ==
    (Reported /\ Len(all_swim_data) >= 2 /\ CombinedDistance > 0 /\ CombinedTime > 0) =>
        LET speed == Rat(1000 * CombinedDistance, CombinedTime)
            paceless == generate_cumulative_data(WithoutPaces(all_swim_data))
        IN  /\ IsMinutesSeconds(cumulative_data["avg_pace_100m"])
            /\ IsMinutesSeconds(cumulative_data["avg_pace_100yd"])
            /\ IsPaceOf(cumulative_data["avg_pace_100m"], 100 * speed[2], speed[1])
            /\ IsPaceOf(cumulative_data["avg_pace_100yd"], 10000000 * speed[2], 109361 * speed[1])
            /\ cumulative_data["avg_pace_100m"] = paceless["avg_pace_100m"]
            /\ cumulative_data["avg_pace_100yd"] = paceless["avg_pace_100yd"]

\* workouts of 1000 m in 625 s each whose own paces are 01:40 and 01:20: the blend is 01:02
C21_Witness ==
    /\ Reported
    /\ Len(all_swim_data) = 2
    /\ CombinedDistance = 2000 /\ CombinedTime = 1250000
    /\ all_swim_data[1]["summary"]["avg_pace_100m"] = <<"0", "1", ":", "4", "0">>
    /\ all_swim_data[2]["summary"]["avg_pace_100m"] = <<"0", "1", ":", "2", "0">>
    /\ cumulative_data["avg_pace_100m"] = <<"0", "1", ":", "0", "2">>
    /\ cumulative_data["avg_pace_100yd"] = <<"0", "0", ":", "5", "7">>

\* the indices of the workouts whose summary has a pace under key that is not "N/A"
WithPace(key) ==
    {i \in 1..Len(all_swim_data) :
        LET pace == Get(all_swim_data[i]["summary"], key, None)
        IN  TruthyStr(pace) /\ pace # NA}

\* the pace under key of the first workout that has one, "N/A" when no workout has one
FirstPace(key) ==
    IF WithPace(key) = {} THEN NA
    ELSE all_swim_data[CHOOSE i \in WithPace(key) : \A j \in WithPace(key) : i <= j]["summary"][key]

\* C22: when the combined distance or the combined time of two or more workouts is not
\* positive, the cumulative 100 m pace is the avg_pace_100m of the first workout, in workout
\* order, whose avg_pace_100m is not "N/A", likewise the 100 yd pace, and each is "N/A" only
\* when no workout has one.
C22_FirstPaceWins ==
    (Reported /\ Len(all_swim_data) >= 2 /\ ~(CombinedDistance > 0 /\ CombinedTime > 0)) =>
        /\ cumulative_data["avg_pace_100m"] = FirstPace("avg_pace_100m")
        /\ cumulative_data["avg_pace_100yd"] = FirstPace("avg_pace_100yd")

\* C23: the cumulative is_yard_pool is the flag of the first workout, whatever the pools of
\* the later workouts are (any of them replaced by any workout of the run leaves it as it
\* is), and the cumulative avg_pace is the cumulative 100 yd pace when the first workout is a
\* yard pool and the cumulative 100 m pace when it is not.
C23_FirstWorkoutPool ==
    (Reported /\ Len(all_swim_data) >= 2) =>
        LET first == all_swim_data[1]["summary"]["is_yard_pool"]
        IN  /\ cumulative_data["is_yard_pool"] = first
            /\ cumulative_data["avg_pace"] =
                    (IF first THEN cumulative_data["avg_pace_100yd"] ELSE cumulative_data["avg_pace_100m"])
            /\ \A i \in 2..Len(all_swim_data), j \in 1..Len(all_swim_data) :
                    generate_cumulative_data([all_swim_data EXCEPT ![i] = all_swim_data[j]])["is_yard_pool"]
                        = first

\* a 25 yd pool first and a 25 m pool second: the yard pace is the headline
C23_Witness ==
    /\ Reported
    /\ Len(all_swim_data) = 2
    /\ Get(all_swim_data[1]["session"], "pool_length_m", 0) = 2286
    /\ Get(all_swim_data[2]["session"], "pool_length_m", 0) = 2500
    /\ all_swim_data[1]["summary"]["is_yard_pool"] /\ ~all_swim_data[2]["summary"]["is_yard_pool"]
    /\ cumulative_data["is_yard_pool"]
    /\ cumulative_data["avg_pace_100m"] = <<"0", "1", ":", "0", "2">>
    /\ cumulative_data["avg_pace"] = <<"0", "0", ":", "5", "7">>

\* the number of laps of the workouts before workout w
RECURSIVE LapsBefore(_)
LapsBefore(w) == IF w <= 1 THEN 0 ELSE LapsBefore(w - 1) + Len(all_swim_data[w - 1]["laps"])

\* the dict without one key
Without(d, key) == [k \in DOMAIN d \ {key} |-> d[k]]

\* C24: the cumulative all_laps holds the laps of the first workout in lap order, then those
\* of the second, and so on; each entry is the workout's lap with the added key
\* workout_number, the 1-based index of its workout; and no lap of a workout has that key.
C24_AllLaps ==
    (Reported /\ Len(all_swim_data) >= 2) =>
        /\ Len(cumulative_data["all_laps"]) = LapsBefore(Len(all_swim_data) + 1)
        /\ \A w \in 1..Len(all_swim_data) :
                \A i \in 1..Len(all_swim_data[w]["laps"]) :
                    LET entry == cumulative_data["all_laps"][LapsBefore(w) + i]
                    IN  /\ "workout_number" \in DOMAIN entry
                        /\ entry["workout_number"] = w
                        /\ Without(entry, "workout_number") = all_swim_data[w]["laps"][i]
                        /\ "workout_number" \notin DOMAIN all_swim_data[w]["laps"][i]

\* laps 1 and 2 in the first file, lap 2 in the second
C24_Witness ==
    /\ Reported
    /\ Len(all_swim_data) = 2
    /\ Len(all_swim_data[1]["laps"]) = 2 /\ Len(all_swim_data[2]["laps"]) = 1
    /\ Len(cumulative_data["all_laps"]) = 3
    /\ cumulative_data["all_laps"][1]["timestamp"] = <<"1">>
    /\ cumulative_data["all_laps"][2]["timestamp"] = <<"2">>
    /\ cumulative_data["all_laps"][3]["timestamp"] = <<"2">>
    /\ cumulative_data["all_laps"][1]["workout_number"] = 1
    /\ cumulative_data["all_laps"][2]["workout_number"] = 1
    /\ cumulative_data["all_laps"][3]["workout_number"] = 2
    /\ cumulative_data["all_laps"][3]["stroke_name"] = <<"D", "r", "i", "l", "l">>
    /\ DOMAIN all_swim_data[2]["laps"][1] =
            {"timestamp", "stroke_type", "stroke_icon_html", "stroke_icon_small", "stroke_name"}

\* the lengths of the workouts from w on, each given the number of its workout
RECURSIVE LengthsFrom(_)
LengthsFrom(w) ==
    IF w > Len(all_swim_data) THEN <<>>
    ELSE [i \in 1..Len(all_swim_data[w]["lengths"]) |->
              Put(all_swim_data[w]["lengths"][i], "workout_number", w)]
         \o LengthsFrom(w + 1)

\* the keys of the cumulative dict that hold a number, a flag, a clock or the stroke counts
CumulativeScalars ==
    {"total_distance_m", "total_distance_yd", "total_time", "total_time_s", "total_strokes",
     "total_laps", "num_workouts", "avg_pace_100m", "avg_pace_100yd", "avg_pace", "is_yard_pool",
     "stroke_breakdown"}

\* C25: the cumulative dict of two or more workouts, one at least with a length, has an entry
\* that is the concatenation of the workouts' lengths, in workout order, each length with the
\* index of its workout.
C25_AllLengths ==
    (Reported /\ Len(all_swim_data) >= 2 /\ LengthsFrom(1) # <<>>) =>
        \E key \in DOMAIN cumulative_data \ CumulativeScalars :
            cumulative_data[key] = LengthsFrom(1)

\* C27: once a stream has had more than one session frame, the session is that of the last
\* one alone: it has a key only where that frame has the field (the count fields drawn here
\* keep their names as keys), so nothing of an earlier session frame is left, the summary is
\* built from it, and the laps, lengths and records are those of the whole stream.
C27_LastSessionOnly ==
    LET sessions == OfKind("session")
    IN  Len(sessions) >= 2 =>
            LET last == sessions[Len(sessions)]
            IN  /\ pc # "error"
                /\ session_data = extract_session_data(last)
                /\ \A key \in DOMAIN session_data : HasField(last, key)
                /\ lap_data = EntitiesOf("lap", stream)
                /\ length_data = EntitiesOf("length", stream)
                /\ record_data = EntitiesOf("record", stream)
                /\ Done =>
                        /\ data["session"] = extract_session_data(last)
                        /\ data["laps"] = EntitiesOf("lap", stream)
                        /\ data["lengths"] = EntitiesOf("length", stream)
                        /\ data["records"] = EntitiesOf("record", stream)
                        /\ data["summary"]["total_strokes"] = LastSessionCount("total_strokes")
                        /\ data["summary"]["num_lengths"] = LastSessionCount("num_lengths")
                        /\ data["summary"] =
                                generate_summary(extract_session_data(last), lap_data, length_data,
                                                 record_data).summary

\* a session with 40 strokes and 4 lengths, a lap, a session with no known field, a record
C27_Witness ==
    /\ Done
    /\ Len(stream) = 4
    /\ stream[1].name = "session" /\ HasField(stream[1], "total_strokes") /\ HasField(stream[1], "num_lengths")
    /\ stream[2].name = "lap" /\ ~Unrecognized(stream[2])
    /\ stream[3].name = "session" /\ Unrecognized(stream[3])
    /\ stream[4].name = "record" /\ ~Unrecognized(stream[4])
    /\ data["session"] = EmptyDict
    /\ data["summary"]["total_strokes"] = 0
    /\ data["summary"]["num_lengths"] = 0
    /\ Len(data["laps"]) = 1 /\ Len(data["records"]) = 1

\* there is no token that is valid or can be refreshed, and no credentials file
CannotAuthenticate == env.token_file \in {"absent", "invalid"} /\ ~env.credentials_file

\* the methods that raise FileNotFoundError for no other reason than authenticate's
AuthenticatingOnly == {"authenticate", "create_folder", "find_or_create_folder"}

\* C29: every request the Drive receives is sent through a service that is set, no method
\* reaches a request without one (it would raise AttributeError), and a method that returns
\* leaves the service set; and a call made with no service, no usable token and no
\* credentials file raises FileNotFoundError and leaves service, credentials, the token file
\* and the Drive as they were, service and credentials unset; FileNotFoundError comes from
\* create_folder, find_or_create_folder and authenticate in that case only.
C29_ServiceFirst ==
    /\ [](/\ \A call \in env.calls : call.service
          /\ outcome.raised # "AttributeError"
          /\ env.calls # {} => uploader.service
          /\ (outcome.op # "" /\ outcome.raised = "") => uploader.service)
    /\ [][/\ (~uploader.service /\ CannotAuthenticate) =>
                /\ outcome'.raised = "FileNotFoundError"
                /\ uploader' = [service |-> FALSE, credentials |-> "none"]
                /\ env' = env
          /\ (outcome'.raised = "FileNotFoundError" /\ outcome'.op \in AuthenticatingOnly) =>
                /\ ~uploader.service /\ CannotAuthenticate
                /\ uploader' = uploader /\ env' = env]_vars

\* upload_fit_file on an uploader without a service, a token that can be refreshed: the
\* token is refreshed and saved, the service built, and then the requests are sent
C29_Witness ==
    /\ outcome.op = "upload_fit_file"
    /\ ~outcome.had_service
    /\ outcome.raised = ""
    /\ uploader = [service |-> TRUE, credentials |-> "valid"]
    /\ env.token_file = "valid" /\ ~env.credentials_file
    /\ env.calls = {[op |-> "list", service |-> TRUE], [op |-> "create", service |-> TRUE]}
    /\ Len(env.folders) = 1 /\ Len(env.files) = 1

\* create_folder on an uploader without a service, an unusable token and no credentials file
C29_NoCredentials ==
    /\ outcome.op = "create_folder"
    /\ ~outcome.had_service
    /\ outcome.raised = "FileNotFoundError"
    /\ uploader = [service |-> FALSE, credentials |-> "none"]
    /\ env.token_file = "invalid" /\ ~env.credentials_file
    /\ env.calls = {}

\* the folders of that name that are not trashed (under the parent, when one is given), in
\* the order of their creation
Matches(folders, folder_name, parent) ==
    SelectSeq(folders, LAMBDA f : /\ f.name = folder_name
                                  /\ ~f.trashed
                                  /\ parent # 0 => parent \in f.parents)

\* the step adds one folder of that name under that parent, with the id returned
CreatesFolder(folder_name, parent) ==
    /\ Len(env'.folders) = Len(env.folders) + 1
    /\ SubSeq(env'.folders, 1, Len(env.folders)) = env.folders
    /\ env'.folders[Len(env'.folders)] =
            [id |-> outcome'.result.folder_id, name |-> folder_name,
             parents |-> IF parent # 0 THEN {parent} ELSE {}, trashed |-> FALSE]

\* the FIT files on the Drive
FitFilesOnDrive == {i \in 1..Len(env.files) : env.files[i].name \in {path.name : path \in FitPaths}}

\* C30: a find_or_create_folder call that finds a match returns the id of the first one and
\* leaves the folders as they are; one that finds none and returns has created exactly that
\* folder and returns its id; no call creates more than one folder.  An upload_fit_file call
\* creates no folder when the folder name has a match, at most one otherwise, and a call that
\* returns has put the file in the first match; so all the FIT files uploaded are in one and
\* the same folder, the first match of the folder name.
C30_FindOrCreate ==
    /\ [][outcome'.op = "find_or_create_folder" =>
            LET found == Matches(env.folders, outcome'.folder, outcome'.parent)
            IN  /\ found # <<>> => env'.folders = env.folders
                /\ (found # <<>> /\ outcome'.raised = "") => outcome'.result.folder_id = found[1].id
                /\ (found = <<>> /\ outcome'.raised = "") => CreatesFolder(outcome'.folder, outcome'.parent)
                /\ Len(env'.folders) <= Len(env.folders) + 1
                /\ env'.files = env.files]_vars
    /\ [][outcome'.op = "upload_fit_file" =>
            LET found == Matches(env.folders, outcome'.folder, 0)
                after == Matches(env'.folders, outcome'.folder, 0)
            IN  /\ found # <<>> => env'.folders = env.folders
                /\ Len(env'.folders) <= Len(env.folders) + 1
                /\ Len(after) <= Len(found) + 1
                /\ outcome'.raised = "" =>
                      /\ after # <<>>
                      /\ found = <<>> => CreatesFolder(outcome'.folder, 0)
                      /\ outcome'.result.folder_id = after[1].id
                      /\ env'.files = Append(env.files, [id |-> outcome'.result.id, name |-> "a.fit",
                                                         parents |-> {after[1].id}])]_vars
    /\ [](\A i \in FitFilesOnDrive :
            /\ Matches(env.folders, drive_folder, 0) # <<>>
            /\ env.files[i].parents = {Matches(env.folders, drive_folder, 0)[1].id})

\* two FIT files uploaded to an empty Drive: one folder, both files in it
C30_Witness ==
    /\ outcome.op = "upload_fit_file"
    /\ outcome.raised = ""
    /\ outcome.result = [id |-> 3, web_link |-> 3, folder_id |-> 1]
    /\ env.folders = <<Folder(1, drive_folder, {}, FALSE)>>
    /\ env.files = <<[id |-> 2, name |-> "a.fit", parents |-> {1}],
                     [id |-> 3, name |-> "a.fit", parents |-> {1}]>>

\* a file of the run is not there, or does not parse
SomeFileMissing == \E i \in 1..Len(fit_files) : fit_files[i].state = "missing"

\* nothing was done on the Drive, nothing uploaded and no report made
NothingUploadedOrReported ==
    /\ outcome = NoCall
    /\ uploader = [service |-> FALSE, credentials |-> "none"]
    /\ env.calls = {} /\ env.files = <<>>
    /\ drive_links = <<>>
    /\ cumulative_data = EmptyDict

\* C26: when parse() raises, self.data is still empty and no workout is kept for the file;
\* the run then goes to exit 1 and nowhere else.  A run with a missing file parses nothing
\* and goes from its start to exit 1.  A run that ended with exit 1 has made no Drive call,
\* uploaded nothing and generated no report, and a run reaches the upload step or the report
\* only with every file there, decoded to its end and kept as a workout.
C26_HardFailure ==
    /\ [](pc = "error" => (data = EmptyDict /\ Len(all_swim_data) < Len(fit_files)))
    /\ [][pc = "error" => (pc' = "exit1" /\ all_swim_data' = all_swim_data /\ data' = EmptyDict)]_vars
    /\ [](SomeFileMissing => (pc \in {"start", "exit1"} /\ all_swim_data = <<>> /\ data = EmptyDict))
    /\ [][(pc = "start" /\ SomeFileMissing) => pc' = "exit1"]_vars
    /\ []((pc \in {"start", "reading", "done", "error", "exit1"}) => NothingUploadedOrReported)
    /\ [][pc = "exit1" => pc' = "exit1"]_vars
    /\ []((pc \in {"uploading", "uploaded", "reported"}) =>
            /\ Len(all_swim_data) = Len(fit_files)
            /\ \A i \in 1..Len(fit_files) : fit_files[i].state = "ok" /\ all_swim_data[i] # EmptyDict)

\* the first file parsed and kept, the second one failed after a session frame was read, an
\* upload asked for: the run ended with exit 1
C26_Witness ==
    /\ pc = "exit1"
    /\ upload_requested
    /\ Len(fit_files) = 2 /\ fit_files[2].state = "corrupt"
    /\ Len(all_swim_data) = 1
    /\ session_data # EmptyDict
    /\ data = EmptyDict
    /\ NothingUploadedOrReported

\* main is at the upload step with the flags and the parsed files that allow it
UploadAllowed ==
    /\ upload_requested
    /\ Len(all_swim_data) = Len(fit_files)
    /\ pc \in {"kept", "uploading"}

\* C28: the uploader, the Drive, the token file and the links change only at the upload step
\* of a run with --upload-to-drive and without --no-upload, after every file was parsed.  A
\* call that raises, be it authenticate or the upload of any file, ends the upload step with
\* the links as they were and the workouts untouched, and never leads to exit 1; a call that
\* returns adds its link.  At any time the links are, in file order, those of the files on
\* the Drive.  After the upload step the report is generated, over all the parsed workouts.
C28_UploadStep ==
    /\ [][~UploadAllowed => UNCHANGED <<uploader, env, outcome, drive_links>>]_vars
    /\ [][(pc \in {"kept", "uploading"} /\ pc' \in {"uploading", "uploaded"}) =>
            /\ all_swim_data' = all_swim_data
            /\ outcome'.raised # "" => (pc' = "uploaded" /\ drive_links' = drive_links)
            /\ (pc' = "uploaded" /\ outcome'.raised = "") =>
                    (drive_links' = drive_links /\ Len(drive_links) = Len(fit_files))
            /\ pc = "uploading" /\ pc' = "uploading" =>
                    drive_links' = Append(drive_links, outcome'.result.web_link)]_vars
    /\ [](/\ Len(drive_links) = Len(env.files)
          /\ Len(drive_links) <= Len(fit_files)
          /\ \A i \in 1..Len(drive_links) :
                env.files[i].id = drive_links[i] /\ env.files[i].name = fit_files[i].name)
    /\ [](outcome.raised # "" => pc \in {"uploaded", "reported"})
    /\ [][pc = "uploaded" => (pc' = "reported" /\ UNCHANGED <<uploader, env, outcome, drive_links>>)]_vars
    /\ [](pc = "reported" =>
            /\ Len(all_swim_data) = Len(fit_files)
            /\ Len(fit_files) >= 2 =>
                    /\ "num_workouts" \in DOMAIN cumulative_data
                    /\ cumulative_data["num_workouts"] = Len(fit_files))
    /\ ((pc \in {"uploading", "uploaded"}) ~> (pc = "reported"))

\* two files, the first uploaded, the upload of the second failed: its link is kept and the
\* report is made over both workouts
C28_Witness ==
    /\ pc = "reported"
    /\ Len(fit_files) = 2
    /\ outcome.op = "upload_fit_file" /\ outcome.raised = "Exception"
    /\ Len(drive_links) = 1
    /\ Len(env.files) = 1 /\ env.files[1].name = "a.fit" /\ env.files[1].id = drive_links[1]
    /\ "num_workouts" \in DOMAIN cumulative_data /\ cumulative_data["num_workouts"] = 2

\* no file uploaded: authenticate found neither a token nor credentials.json, and the report
\* is made all the same
C28_AuthenticationFailed ==
    /\ pc = "reported"
    /\ outcome.op = "authenticate" /\ outcome.raised = "FileNotFoundError"
    /\ drive_links = <<>>
    /\ Len(all_swim_data) = Len(fit_files)

=============================================================================
